---- MODULE Spec2Model ----
(***************************************************************************)
(* Model of izy.bidict: Boundict / Bidict.                                 *)
(*                                                                         *)
(* A Bidict is a dict (the forward map) that owns a second Boundict, r     *)
(* (the reverse map); each of the two holds the other as its peer.  A      *)
(* Python dict is modelled as the sequence of its <<key, value>> items in  *)
(* iteration (insertion) order.  Objects are strings; one of them, "[]",   *)
(* stands for an unhashable object such as a list.                         *)
(***************************************************************************)
EXTENDS Integers, Sequences, FiniteSets, TLC

\* ---------------------------------------------------------------- bounds
\* number of distinct keys, of distinct values, and of pairs handed to one
\* update call
MaxKeys == 3
MaxVals == 2
MaxPairs == 2

KeyNames == <<"a", "b", "c", "d", "e">>
ValNames == <<"1", "2", "3", "4", "5">>

Keys == {KeyNames[i] : i \in 1..MaxKeys}
Vals == {ValNames[i] : i \in 1..MaxVals}

\* a list: a valid Python object that cannot be a dict key
Unhashable == "[]"

\* None, and the absent argument of a call
NoObj == "-"

Hashable(x) == x # Unhashable

\* ------------------------------------------------------- the builtin dict
Range(s) == {s[i] : i \in 1..Len(s)}

\* the place of e in seq
index_of(seq, e) == CHOOSE i \in 1..Len(seq) : seq[i] = e

dict_keys(d) == {d[i][1] : i \in 1..Len(d)}

\* the keys of d in iteration order
keys_in_order(d) == [i \in 1..Len(d) |-> d[i][1]]

dict_contains(d, k) == \E i \in 1..Len(d) : d[i][1] = k

dict_index(d, k) == CHOOSE i \in 1..Len(d) : d[i][1] = k

dict_get(d, k) == d[dict_index(d, k)][2]

\* d[k]
dict_getitem(d, k) ==
    IF ~Hashable(k) THEN [exc |-> "TypeError", ret |-> NoObj]
    ELSE IF ~dict_contains(d, k) THEN [exc |-> "KeyError", ret |-> NoObj]
    ELSE [exc |-> "none", ret |-> dict_get(d, k)]

\* dict.__setitem__ for a hashable k: an existing key keeps its position
dict_setitem(d, k, v) ==
    IF dict_contains(d, k)
    THEN [i \in 1..Len(d) |-> IF d[i][1] = k THEN <<k, v>> ELSE d[i]]
    ELSE Append(d, <<k, v>>)

\* the items of d without key k, order kept
dict_without(d, k) == SelectSeq(d, LAMBDA p : p[1] # k)

\* dict.__delitem__
dict_delitem(d, k) ==
    IF ~Hashable(k) THEN [d |-> d, exc |-> "TypeError"]
    ELSE IF ~dict_contains(d, k) THEN [d |-> d, exc |-> "KeyError"]
    ELSE [d |-> dict_without(d, k), exc |-> "none"]

\* ---------------------------------------------------------------- Boundict
\* the outcome of a method of a Boundict: its own items, its peer's items,
\* and the exception that left the method, if any
Outcome(s, p, e) == [self |-> s, peer |-> p, exc |-> e]

\* the same outcome seen from the peer
Swap(o) == [self |-> o.peer, peer |-> o.self, exc |-> o.exc]

\* mutants of Boundict.__delitem__: the pair is removed from self only, from
\* the peer only, or a missing key is passed over in silence
Boundict_delitem_self_only(self, peer, k) ==
    LET sd == dict_delitem(self, k) IN Outcome(sd.d, peer, sd.exc)

Boundict_delitem_peer_only(self, peer, k) ==
    LET got == dict_getitem(self, k) IN
    IF got.exc # "none" THEN Outcome(self, peer, got.exc)
    ELSE LET pd == dict_delitem(peer, got.ret) IN Outcome(self, pd.d, pd.exc)

Boundict_delitem_discard(self, peer, k) ==
    LET got == dict_getitem(self, k) IN
    IF got.exc # "none" THEN Outcome(self, peer, "none")
    ELSE Outcome(dict_without(self, k), dict_without(peer, got.ret), "none")

\* Boundict.__delitem__(self, k)
Boundict_delitem(self, peer, k) ==
    LET got == dict_getitem(self, k) IN
    IF got.exc # "none" THEN Outcome(self, peer, got.exc)
    ELSE LET pd == dict_delitem(peer, got.ret) IN
         IF pd.exc # "none" THEN Outcome(self, peer, pd.exc)
         ELSE Outcome(dict_delitem(self, k).d, pd.d, "none")

\* the two writes that end Boundict.__setitem__
WriteBoth(o, k, v) ==
    IF o.exc # "none" THEN o
    ELSE Outcome(dict_setitem(o.self, k, v), dict_setitem(o.peer, v, k), "none")

\* mutants of Boundict.__setitem__: the old pair of v is not evicted; only
\* the peer's half of the old pair of v is removed; the old pair of k is not
\* evicted; the pair of k is evicted even when its value is v already
Boundict_setitem_no_value_eviction(self, peer, k, v) ==
    LET s1 == IF ~Hashable(k) THEN Outcome(self, peer, "TypeError")
              ELSE IF dict_contains(self, k) /\ dict_get(self, k) # v
                   THEN Boundict_delitem(self, peer, k)
                   ELSE Outcome(self, peer, "none")
    IN  WriteBoth(IF s1.exc = "none" /\ ~Hashable(v)
                  THEN Outcome(s1.self, s1.peer, "TypeError") ELSE s1, k, v)

Boundict_setitem_detach(self, peer, k, v) ==
    LET s1 == IF ~Hashable(k) THEN Outcome(self, peer, "TypeError")
              ELSE IF dict_contains(self, k) /\ dict_get(self, k) # v
                   THEN Boundict_delitem(self, peer, k)
                   ELSE Outcome(self, peer, "none")
        s2 == IF s1.exc # "none" THEN s1
              ELSE IF ~Hashable(v) THEN Outcome(s1.self, s1.peer, "TypeError")
              ELSE IF dict_contains(s1.peer, v) /\ dict_get(s1.peer, v) # k
                   THEN Outcome(s1.self, dict_without(s1.peer, v), "none")
                   ELSE s1
    IN  WriteBoth(s2, k, v)

Boundict_setitem_no_key_eviction(self, peer, k, v) ==
    LET s2 == IF ~Hashable(k) \/ ~Hashable(v) THEN Outcome(self, peer, "TypeError")
              ELSE IF dict_contains(peer, v) /\ dict_get(peer, v) # k
                   THEN Swap(Boundict_delitem(peer, self, v))
                   ELSE Outcome(self, peer, "none")
    IN  WriteBoth(s2, k, v)

Boundict_setitem_always_evict(self, peer, k, v) ==
    LET s1 == IF ~Hashable(k) THEN Outcome(self, peer, "TypeError")
              ELSE IF dict_contains(self, k)
                   THEN Boundict_delitem(self, peer, k)
                   ELSE Outcome(self, peer, "none")
        s2 == IF s1.exc # "none" THEN s1
              ELSE IF ~Hashable(v) THEN Outcome(s1.self, s1.peer, "TypeError")
              ELSE IF dict_contains(s1.peer, v) /\ dict_get(s1.peer, v) # k
                   THEN Swap(Boundict_delitem(s1.peer, s1.self, v))
                   ELSE s1
    IN  WriteBoth(s2, k, v)

\* Boundict.__setitem__(self, k, v)
Boundict_setitem(self, peer, k, v) ==
    LET s1 == IF ~Hashable(k) THEN Outcome(self, peer, "TypeError")
              ELSE IF dict_contains(self, k) /\ dict_get(self, k) # v
                   THEN Boundict_delitem(self, peer, k)
                   ELSE Outcome(self, peer, "none")
        s2 == IF s1.exc # "none" THEN s1
              ELSE IF ~Hashable(v) THEN Outcome(s1.self, s1.peer, "TypeError")
              ELSE IF dict_contains(s1.peer, v) /\ dict_get(s1.peer, v) # k
                   THEN Swap(Boundict_delitem(s1.peer, s1.self, v))
                   ELSE s1
    IN  WriteBoth(s2, k, v)

\* Boundict.update: new_items, the pairs of `other` in iteration order.
\* `other` is modelled by that sequence of pairs: other.items() of a Mapping
\* and the elements of any other iterable are both the sequence itself.
new_items(other) == [i \in 1..Len(other) |-> <<other[i][1], other[i][2]>>]

\* the two for loops of Boundict.update: self[k] = v for each pair, until one
\* raises
RECURSIVE update_loop(_, _)
update_loop(o, items) ==
    IF o.exc # "none" \/ items = <<>> THEN o
    ELSE update_loop(Boundict_setitem(o.self, o.peer, items[1][1], items[1][2]),
                     Tail(items))

\* mutant of Boundict.update: the keyword pairs are applied first
Boundict_update_kv_first(self, peer, other, kv) ==
    update_loop(update_loop(Outcome(self, peer, "none"), kv), new_items(other))

\* Boundict.update(self, other, **kv)
Boundict_update(self, peer, other, kv) ==
    update_loop(update_loop(Outcome(self, peer, "none"), new_items(other)), kv)

\* ------------------------------------------------------- Bidict.__init__
\* A positional argument is a str, a Mapping, a list or an int. A str is
\* given by its parts between '-' characters: 'word-id' is <<"word", "id">>
\* and 'word' is <<"word">>. A Mapping and a list are given by their pairs.
StrArg(parts) == [type |-> "str", parts |-> parts, items |-> <<>>]
MappingArg(items) == [type |-> "Mapping", parts |-> <<>>, items |-> items]
ListArg(items) == [type |-> "list", parts |-> <<>>, items |-> items]
IntArg == [type |-> "int", parts |-> <<>>, items |-> <<>>]

\* a keyword argument name=value: the value is a list or a single object
KwList(name, items) == [name |-> name, type |-> "list", items |-> items, obj |-> NoObj]
KwObj(name, obj) == [name |-> name, type |-> "obj", items |-> <<>>, obj |-> obj]

\* the text of a str
RECURSIVE str_join(_)
str_join(parts) ==
    IF Len(parts) = 1 THEN parts[1]
    ELSE parts[1] \o "-" \o str_join(Tail(parts))

\* str.count('-')
str_count(parts) == Len(parts) - 1

\* isinstance(arg, str), isinstance(arg, Mapping), isinstance(arg, Sequence):
\* a str is a Sequence
is_str(arg) == arg.type = "str"
is_Mapping(arg) == arg.type = "Mapping"
is_Sequence(arg) == arg.type \in {"str", "list"}

\* dict(pairs) of a list of pairs with hashable keys: a repeated key keeps
\* its first position and takes its last value
RECURSIVE dict_of_pairs(_, _)
dict_of_pairs(d, pairs) ==
    IF pairs = <<>> THEN d
    ELSE dict_of_pairs(dict_setitem(d, pairs[1][1], pairs[1][2]), Tail(pairs))

\* dict(arg) of a Sequence: the elements of a str are its characters, which
\* are not pairs
dict_of(arg) ==
    IF is_str(arg) THEN [d |-> <<>>, exc |-> "ValueError"]
    ELSE [d |-> dict_of_pairs(<<>>, arg.items), exc |-> "none"]

\* zip(keys, values): stops at the end of the shorter one
zip(keys, values) ==
    [i \in 1..(IF Len(keys) < Len(values) THEN Len(keys) ELSE Len(values))
        |-> <<keys[i], values[i]>>]

\* the items of kwargs; a list is an unhashable value
kwargs_items(kwargs) ==
    [i \in 1..Len(kwargs) |->
        <<kwargs[i].name,
          IF kwargs[i].type = "list" THEN Unhashable ELSE kwargs[i].obj>>]

\* the Bidict under construction: its items, the items of its r, the two
\* names, its attributes and the exception raised so far
Building(self, peer, key_name, value_name, attrs, exc) ==
    [self |-> self, peer |-> peer, key_name |-> key_name,
     value_name |-> value_name, attrs |-> attrs, exc |-> exc]

\* self.update(other) while building, unless something has raised
init_update(b, other) ==
    IF b.exc # "none" THEN b
    ELSE LET o == Boundict_update(b.self, b.peer, other, <<>>)
         IN  Building(o.self, o.peer, b.key_name, b.value_name, b.attrs, o.exc)

\* raise exc while building, unless something has raised
init_raise(b, exc) ==
    IF b.exc # "none" THEN b
    ELSE Building(b.self, b.peer, b.key_name, b.value_name, b.attrs, exc)

\* key_name, value_name = kn, vn
init_names(b, kn, vn) == Building(b.self, b.peer, kn, vn, b.attrs, b.exc)

\* setattr(self, name, obj), where obj is "d" for self and otherwise the
\* object that self.r is at this point
init_setattr(b, name, obj) ==
    Building(b.self, b.peer, b.key_name, b.value_name,
             (name :> (IF obj = "d" THEN "d" ELSE b.attrs["r"])) @@ b.attrs, b.exc)

\* the positional arguments
init_args(b, args) ==
    IF Len(args) = 1 THEN
        LET arg == args[1] IN
        IF is_str(arg) /\ str_count(arg.parts) = 1
        THEN init_names(b, arg.parts[1], arg.parts[2])
        ELSE IF is_Mapping(arg) THEN init_update(b, arg.items)
        ELSE IF is_Sequence(arg)
             THEN LET d == dict_of(arg)
                  IN  IF d.exc # "none" THEN init_raise(b, d.exc)
                      ELSE init_update(b, d.d)
        ELSE init_raise(b, "ValueError")
    ELSE IF Len(args) = 2 THEN
        IF \A i \in 1..2 : is_str(args[i])
        THEN init_names(b, str_join(args[1].parts), str_join(args[2].parts))
        ELSE init_raise(b, "ValueError")
    ELSE IF Len(args) > 2 THEN init_raise(b, "ValueError")
    ELSE b

\* the keyword arguments
init_kwargs(b, kwargs) ==
    IF b.exc # "none" THEN b
    ELSE IF Len(kwargs) = 2 /\ \A i \in 1..2 : kwargs[i].type = "list"
    THEN init_update(init_names(b, kwargs[1].name, kwargs[2].name),
                     zip(kwargs[1].items, kwargs[2].items))
    ELSE init_update(b, kwargs_items(kwargs))

\* the attributes d, r, <value_name>, <key_name>, <key_name>2<value_name>
\* and <value_name>2<key_name>
init_attrs(b) ==
    IF b.exc # "none" THEN b
    ELSE LET a1 == init_setattr(b, "d", "d")
             a2 == init_setattr(a1, "r", "r")
             a3 == init_setattr(a2, b.value_name, "d")
             a4 == init_setattr(a3, b.key_name, "r")
             a5 == init_setattr(a4, b.key_name \o "2" \o b.value_name, "d")
             a6 == init_setattr(a5, b.value_name \o "2" \o b.key_name, "r")
         IN  IF b.key_name # "direct" /\ b.value_name # "reverse" THEN a6 ELSE a4

\* Bidict(*args, **kwargs)
Bidict_init(args, kwargs) ==
    init_attrs(init_kwargs(init_args(
        Building(<<>>, <<>>, "reverse", "direct", ("r" :> "r"), "none"),
        args), kwargs))

\* ------------------------------------------- methods inherited from dict
\* dict.pop(k): removes k from this dict alone
dict_pop(self, peer, k) ==
    LET got == dict_getitem(self, k) IN
    IF got.exc # "none" THEN [self |-> self, peer |-> peer, exc |-> got.exc, ret |-> NoObj]
    ELSE [self |-> dict_without(self, k), peer |-> peer, exc |-> "none", ret |-> got.ret]

\* dict.popitem(): removes the last inserted item from this dict alone
dict_popitem(self, peer) ==
    IF self = <<>> THEN [self |-> self, peer |-> peer, exc |-> "KeyError", ret |-> NoObj]
    ELSE [self |-> SubSeq(self, 1, Len(self) - 1), peer |-> peer, exc |-> "none",
          ret |-> self[Len(self)][1]]

\* dict.setdefault(k, default): inserts into this dict alone when k is absent
dict_setdefault(self, peer, k, default) ==
    IF ~Hashable(k) THEN [self |-> self, peer |-> peer, exc |-> "TypeError", ret |-> NoObj]
    ELSE IF dict_contains(self, k)
         THEN [self |-> self, peer |-> peer, exc |-> "none", ret |-> dict_get(self, k)]
         ELSE [self |-> Append(self, <<k, default>>), peer |-> peer, exc |-> "none",
               ret |-> default]

\* dict.clear(): empties this dict alone
dict_clear(self, peer) == [self |-> <<>>, peer |-> peer, exc |-> "none", ret |-> NoObj]

\* ------------------------------------------------------------------ sorted
\* sorted(xs, key=..., reverse=...) is stable: e goes behind every element
\* that does not have to come after it, so equal keys keep the order of xs,
\* with reverse too. key is a function from the elements to their keys.
insert_sorted(done, e, key, reverse) ==
    LET after(f) == IF reverse THEN key[f] < key[e] ELSE key[f] > key[e]
        n == Cardinality({j \in 1..Len(done) : ~after(done[j])})
    IN  SubSeq(done, 1, n) \o <<e>> \o SubSeq(done, n + 1, Len(done))

RECURSIVE sorted_from(_, _, _, _)
sorted_from(done, xs, key, reverse) ==
    IF xs = <<>> THEN done
    ELSE sorted_from(insert_sorted(done, xs[1], key, reverse), Tail(xs), key, reverse)

sorted(xs, key, reverse) == sorted_from(<<>>, xs, key, reverse)

\* the first n elements of xs, all of them when there are fewer
first_n(xs, n) == SubSeq(xs, 1, IF n < Len(xs) THEN n ELSE Len(xs))

\* op.itemgetter(1) on the items of a dict
itemgetter_1(items) == [p \in Range(items) |-> p[2]]

\* heapq.nsmallest(n, items, key) and heapq.nlargest(n, items, key), which
\* are sorted(items, key=key)[:n] and sorted(items, key=key, reverse=True)[:n]
heapq_nsmallest(n, items, key) == first_n(sorted(items, key, FALSE), n)
heapq_nlargest(n, items, key) == first_n(sorted(items, key, TRUE), n)

\* ------------------------------------------------------------------ Scorer
\* the elements scored, and the scores given, from -1 to MaxScore
MaxElems == 2
MaxScore == 1

\* the longest list or tuple handed to a sorting function
MaxLen == 3

ElemNames == <<"x", "y", "z", "u", "w">>
Elems == {ElemNames[i] : i \in 1..MaxElems}
Scores == (-1)..MaxScore

\* the outcome of a method that changes a Scorer: its items and the
\* exception raised; and of one that returns a new Scorer or a list
Changed(items, exc) == [items |-> items, exc |-> exc]
Returned(ret, exc) == [ret |-> ret, exc |-> exc]

\* Scorer.update(*args, **kwds): args are lists of elements, lists of
\* scores and lists of pairs (the items of a dict or of a Scorer); kwds is a
\* list of pairs. On a Scorer that is not empty the loop calls
\* new_scores.iteritems(), which a dict does not have.
RECURSIVE Scorer_update(_, _, _)
Scorer_update(self, args, kwds) ==
    IF Len(args) > 2 THEN Changed(self, "TypeError")
    ELSE LET new_scores == IF Len(args) = 2
                           THEN dict_of_pairs(<<>>, zip(args[1], args[2]))
                           ELSE dict_of_pairs(<<>>, args[1])
             u == IF Len(args) = 0 THEN Changed(self, "none")
                  ELSE IF self # <<>> THEN Changed(self, "AttributeError")
                  ELSE Changed(new_scores, "none")
         IN  IF u.exc = "none" /\ kwds # <<>>
             THEN Scorer_update(u.items, <<kwds>>, <<>>)
             ELSE u

\* Scorer(*args, missing_value=0, **kwds)
Scorer_init(args, missing_value, kwds) ==
    LET u == IF Len(args) > 2 THEN Changed(<<>>, "TypeError")
             ELSE Scorer_update(<<>>, args, kwds)
    IN  [items |-> u.items, missing_value |-> missing_value, exc |-> u.exc]

\* Scorer.copy(): self.__class__(self)
Scorer_copy(self) == Scorer_init(<<self>>, 0, <<>>).items

\* Scorer.__missing__ under dict.__getitem__
Scorer_getitem(self, missing_value, elem) ==
    IF dict_contains(self, elem) THEN dict_get(self, elem) ELSE missing_value

\* the other operand of an operator: a Scorer or a dict, given by its
\* items, an int, or a str
ScorerOperand(items) == [type |-> "Scorer", items |-> items, n |-> 0]
DictOperand(items) == [type |-> "dict", items |-> items, n |-> 0]
IntOperand(n) == [type |-> "int", items |-> <<>>, n |-> n]
StrOperand == [type |-> "str", items |-> <<>>, n |-> 0]

\* a // b and a % b of Python ints
floordiv(a, b) == IF b > 0 THEN a \div b ELSE (-a) \div (-b)
mod(a, b) == a - b * floordiv(a, b)

\* operator(a, b) for the operators handed to _binary_operator
BinaryOperators == {"add", "sub", "mul", "floordiv", "mod"}

operator_call(operator, a, b) ==
    CASE operator = "add" -> Returned(a + b, "none")
      [] operator = "sub" -> Returned(a - b, "none")
      [] operator = "mul" -> Returned(a * b, "none")
      [] operator = "floordiv" ->
            IF b = 0 THEN Returned(0, "ZeroDivisionError")
            ELSE Returned(floordiv(a, b), "none")
      [] operator = "mod" ->
            IF b = 0 THEN Returned(0, "ZeroDivisionError")
            ELSE Returned(mod(a, b), "none")

max(a, b) == IF b > a THEN b ELSE a
min(a, b) == IF b < a THEN b ELSE a

\* the loop of _binary_operator over the items of self when other is a
\* Mapping: result[elem] = operator(score, other[elem]) for elem in other
RECURSIVE binary_loop_Mapping(_, _, _, _)
binary_loop_Mapping(result, items, other, operator) ==
    IF result.exc # "none" \/ items = <<>> THEN result
    ELSE IF ~dict_contains(other, items[1][1])
         THEN binary_loop_Mapping(result, Tail(items), other, operator)
    ELSE LET r == operator_call(operator, items[1][2], dict_get(other, items[1][1]))
         IN  IF r.exc # "none" THEN Returned(result.ret, r.exc)
             ELSE binary_loop_Mapping(
                      Returned(dict_setitem(result.ret, items[1][1], r.ret), "none"),
                      Tail(items), other, operator)

\* the loop of _binary_operator when other is an int or a float
RECURSIVE binary_loop_scalar(_, _, _, _)
binary_loop_scalar(result, items, n, operator) ==
    IF result.exc # "none" \/ items = <<>> THEN result
    ELSE LET r == operator_call(operator, items[1][2], n)
         IN  IF r.exc # "none" THEN Returned(result.ret, r.exc)
             ELSE binary_loop_scalar(
                      Returned(dict_setitem(result.ret, items[1][1], r.ret), "none"),
                      Tail(items), n, operator)

\* mutant of _binary_operator: the items of other that self lacks are
\* carried too, as collections.Counter does
Scorer_binary_operator_union(self, other, operator) ==
    IF other.type \in {"Scorer", "dict"}
    THEN binary_loop_Mapping(
             Returned(dict_of_pairs(Scorer_copy(self), other.items), "none"),
             self, other.items, operator)
    ELSE IF other.type = "int"
    THEN binary_loop_scalar(Returned(Scorer_copy(self), "none"), self, other.n, operator)
    ELSE Returned(<<>>, "ValueError")

\* Scorer._binary_operator(self, other, operator)
Scorer_binary_operator(self, other, operator) ==
    IF other.type \in {"Scorer", "dict"}
    THEN binary_loop_Mapping(Returned(Scorer_copy(self), "none"), self,
                             other.items, operator)
    ELSE IF other.type = "int"
    THEN binary_loop_scalar(Returned(Scorer_copy(self), "none"), self, other.n, operator)
    ELSE Returned(<<>>, "ValueError")

\* Scorer.__pos__(self)
RECURSIVE pos_loop(_, _)
pos_loop(result, items) ==
    IF items = <<>> THEN result
    ELSE pos_loop(IF items[1][2] > 0
                  THEN dict_setitem(result, items[1][1], items[1][2])
                  ELSE result, Tail(items))

Scorer_pos(self) == Returned(pos_loop(<<>>, self), "none")

\* the loops of __or__: over the items of a Scorer other, and over the items
\* of self for a scalar other
RECURSIVE or_loop_Scorer(_, _, _)
or_loop_Scorer(result, self, items) ==
    IF items = <<>> THEN result
    ELSE or_loop_Scorer(
             dict_setitem(result, items[1][1],
                 IF dict_contains(self, items[1][1])
                 THEN max(dict_get(self, items[1][1]), items[1][2])
                 ELSE items[1][2]),
             self, Tail(items))

RECURSIVE or_loop_scalar(_, _, _)
or_loop_scalar(result, items, n) ==
    IF items = <<>> THEN result
    ELSE or_loop_scalar(dict_setitem(result, items[1][1], max(items[1][2], n)),
                        Tail(items), n)

\* Scorer.__or__(self, other)
Scorer_or(self, other) ==
    IF other.type = "Scorer"
    THEN Returned(or_loop_Scorer(Scorer_copy(self), self, other.items), "none")
    ELSE IF other.type = "int"
    THEN Returned(or_loop_scalar(Scorer_copy(self), self, other.n), "none")
    ELSE Returned(<<>>, "NotImplementedError")

\* the loops of __and__
RECURSIVE and_loop_Scorer(_, _, _)
and_loop_Scorer(result, items, other) ==
    IF items = <<>> THEN result
    ELSE and_loop_Scorer(
             IF dict_contains(other, items[1][1])
             THEN dict_setitem(result, items[1][1],
                               min(items[1][2], dict_get(other, items[1][1])))
             ELSE result,
             Tail(items), other)

RECURSIVE and_loop_scalar(_, _, _)
and_loop_scalar(result, items, n) ==
    IF items = <<>> THEN result
    ELSE and_loop_scalar(IF items[1][2] >= n
                         THEN dict_setitem(result, items[1][1], items[1][2])
                         ELSE result, Tail(items), n)

\* mutant of __and__: a scalar other drops the items that score other, too
Scorer_and_strict(self, other) ==
    IF other.type = "Scorer"
    THEN Returned(and_loop_Scorer(<<>>, self, other.items), "none")
    ELSE IF other.type = "int"
    THEN Returned(and_loop_scalar(<<>>, self, other.n + 1), "none")
    ELSE Returned(<<>>, "NotImplementedError")

\* Scorer.__and__(self, other)
Scorer_and(self, other) ==
    IF other.type = "Scorer"
    THEN Returned(and_loop_Scorer(<<>>, self, other.items), "none")
    ELSE IF other.type = "int"
    THEN Returned(and_loop_scalar(<<>>, self, other.n), "none")
    ELSE Returned(<<>>, "NotImplementedError")

\* Scorer.ascending(self), Scorer.descending(self)
Scorer_ascending(self) == sorted(self, itemgetter_1(self), FALSE)
Scorer_descending(self) == sorted(self, itemgetter_1(self), TRUE)

\* the argument k of topk and bottomk: None, an int, inf or -inf
NoneK == [type |-> "None", n |-> 0]
IntK(n) == [type |-> "int", n |-> n]
InfK == [type |-> "inf", n |-> 1]
MinusInfK == [type |-> "inf", n |-> -1]

\* k in [None, 0, float('inf')]
in_None_0_inf(k) == k = NoneK \/ k = IntK(0) \/ k = InfK

\* -k of an int or of an inf
neg(k) == [type |-> k.type, n |-> -k.n]

\* abs(k) of an int
abs(n) == IF n < 0 THEN -n ELSE n

\* mutant of topk: a negative k lists the top abs(k) items
Scorer_topk_abs(self, k) ==
    IF in_None_0_inf(k) THEN Scorer_descending(self)
    ELSE IF k = MinusInfK THEN Scorer_ascending(self)
    ELSE heapq_nlargest(abs(k.n), self, itemgetter_1(self))

\* Scorer.topk(self, k)
Scorer_topk(self, k) ==
    IF in_None_0_inf(k) THEN Scorer_descending(self)
    ELSE IF k = MinusInfK THEN Scorer_ascending(self)
    ELSE IF k.n < 0 THEN heapq_nsmallest(abs(k.n), self, itemgetter_1(self))
    ELSE heapq_nlargest(k.n, self, itemgetter_1(self))

\* Scorer.bottomk(self, k)
Scorer_bottomk(self, k) ==
    IF in_None_0_inf(k) THEN Scorer_topk(self, MinusInfK)
    ELSE Scorer_topk(self, neg(k))

\* ----------------------------------------------------------------- sorting
\* a Sortable x: a list or a tuple, given by its elements, or a dict, given
\* by its items; an OrderedDict is what reorder makes of a dict
ListOf(items) == [type |-> "list", items |-> items]
TupleOf(items) == [type |-> "tuple", items |-> items]
DictOf(items) == [type |-> "dict", items |-> items]
OrderedDictOf(items) == [type |-> "OrderedDict", items |-> items]

\* isinstance(x, Mapping), isinstance(x, MutableSequence)
isinstance_Mapping(x) == x.type \in {"dict", "OrderedDict"}
isinstance_MutableSequence(x) == x.type = "list"

\* decide_arg(x): the keys of a Mapping, range(len(x)) otherwise
decide_arg(x) ==
    IF isinstance_Mapping(x) THEN keys_in_order(x.items)
    ELSE [i \in 1..Len(x.items) |-> i - 1]

\* x[i], and key=x.__getitem__ as a function of the indices
getitem(x, i) ==
    IF isinstance_Mapping(x) THEN dict_get(x.items, i) ELSE x.items[i + 1]

getitem_key(x) == [i \in Range(decide_arg(x)) |-> getitem(x, i)]

\* the strs in the order of <, and the place of a str in it
Alphabet == <<"u", "w", "x", "y", "z">>
str_key(strs) == [c \in strs |-> CHOOSE i \in 1..Len(Alphabet) : Alphabet[i] = c]

\* the identity as key, for sorted(x)
identity_key(xs) == [v \in Range(xs) |-> v]

\* seq in reverse
reversed(seq) == [i \in 1..Len(seq) |-> seq[Len(seq) + 1 - i]]

\* mutant of argsort: reverse=True reverses the ascending list
argsort_reversing(x, reverse) ==
    IF reverse THEN reversed(sorted(decide_arg(x), getitem_key(x), FALSE))
    ELSE sorted(decide_arg(x), getitem_key(x), FALSE)

\* argsort(x, reverse)
argsort(x, reverse) == sorted(decide_arg(x), getitem_key(x), reverse)

\* argsorted(x, reverse)
argsorted(x, reverse) == argsort(x, reverse)

\* reorder(x, indices)
reorder(x, indices) ==
    IF isinstance_Mapping(x)
    THEN OrderedDictOf(dict_of_pairs(<<>>,
             [j \in 1..Len(indices) |-> <<indices[j], getitem(x, indices[j])>>]))
    ELSE LET reordered_x == [j \in 1..Len(indices) |-> getitem(x, indices[j])]
         IN  IF isinstance_MutableSequence(x) THEN ListOf(reordered_x)
             ELSE TupleOf(reordered_x)

\* ordered(x, by_keys, reverse)
ordered(x, by_keys, reverse) ==
    IF isinstance_Mapping(x)
    THEN LET sorted_keys ==
                 IF by_keys
                 THEN sorted(keys_in_order(x.items), str_key(dict_keys(x.items)), reverse)
                 ELSE argsorted(x, reverse)
         IN  reorder(x, sorted_keys)
    ELSE LET sorted_x == sorted(x.items, identity_key(x.items), reverse)
         IN  IF isinstance_MutableSequence(x) THEN ListOf(sorted_x)
             ELSE TupleOf(sorted_x)

\* ascending(x, by_keys), descending(x, by_keys)
ascending(x, by_keys) == ordered(x, by_keys, FALSE)
descending(x, by_keys) == ordered(x, by_keys, TRUE)

\* ------------------------------------------------------------------- Table
\* The lists that hold the columns are objects, which tables may share. ls
\* is the sequence of the lists alive, a column is the place of its list in
\* ls, and the cols of a Table are a dict from column names to such places.
\* A cell is a value or None; a row is a dict from names to cells.
NoneCell == "-"

\* what a method leaves: the lists alive, the cols of the Table it made or
\* changed, and the exception it raised
TableOutcome(ls, cols, exc) == [lists |-> ls, cols |-> cols, exc |-> exc]

\* the elements of seq, each once, in the order of their first places
RECURSIVE unique(_)
unique(seq) ==
    IF seq = <<>> THEN <<>>
    ELSE LET rest == unique(SubSeq(seq, 1, Len(seq) - 1))
             e == seq[Len(seq)]
         IN  IF e \in Range(rest) THEN rest ELSE Append(rest, e)

RECURSIVE concat_all(_)
concat_all(seqs) ==
    IF seqs = <<>> THEN <<>> ELSE Head(seqs) \o concat_all(Tail(seqs))

\* [len(col) for col in cols.values()]
col_lengths(ls, cols) == [i \in 1..Len(cols) |-> Len(ls[cols[i][2]])]

\* Table.check_cols(cols)
Table_check_cols(ls, cols) ==
    IF Cardinality(Range(col_lengths(ls, cols))) # 1 THEN "ValueError"
    ELSE "none"

\* Table.__len__: next(iter(...)) of no column raises StopIteration
Table_len(ls, cols) ==
    IF cols = <<>> THEN [exc |-> "StopIteration", ret |-> 0]
    ELSE [exc |-> "none", ret |-> Len(ls[cols[1][2]])]

\* row.get(c)
row_get(row, c) == IF dict_contains(row, c) THEN dict_get(row, c) ELSE NoneCell

\* Table.append(row): one append per column, in the order of the columns
RECURSIVE Table_append(_, _, _)
Table_append(ls, cols, row) ==
    IF cols = <<>> THEN ls
    ELSE Table_append(
             [ls EXCEPT ![cols[1][2]] = Append(@, row_get(row, cols[1][1]))],
             Tail(cols), row)

\* col_names of cols_from_rows: the keys of the rows, one row after another
RECURSIVE col_names_of(_)
col_names_of(rows) ==
    IF rows = <<>> THEN <<>>
    ELSE keys_in_order(rows[1]) \o col_names_of(Tail(rows))

\* dict.fromkeys(col_names)
dict_fromkeys(col_names) ==
    dict_of_pairs(<<>>, [i \in 1..Len(col_names) |-> <<col_names[i], NoneCell>>])

\* for row in rows: self.append(row)
RECURSIVE append_rows(_, _, _)
append_rows(ls, cols, rows) ==
    IF rows = <<>> THEN ls
    ELSE append_rows(Table_append(ls, cols, rows[1]), cols, Tail(rows))

\* Table.cols_from_rows(rows)
Table_cols_from_rows(ls, rows) ==
    LET names == keys_in_order(dict_fromkeys(col_names_of(rows)))
        cols == [i \in 1..Len(names) |-> <<names[i], Len(ls) + i>>]
        empty == [i \in 1..Len(names) |-> <<>>]
    IN  TableOutcome(append_rows(ls \o empty, cols, rows), cols, "none")

\* the data handed to Table(...): a dict of lists written out in the call,
\* a list of rows, or something else
DictData(items) == [type |-> "dict", items |-> items]
RowsData(rows) == [type |-> "list", items |-> rows]
OtherData == [type |-> "int", items |-> <<>>]

\* Table(cols), cols a dict of lists that are alive
Table_init_cols(ls, cols) ==
    IF Table_check_cols(ls, cols) # "none" THEN TableOutcome(ls, <<>>, "ValueError")
    ELSE TableOutcome(ls, cols, "none")

\* Table(data)
Table_init(ls, data) ==
    IF data.type = "dict"
    THEN LET new == [i \in 1..Len(data.items) |-> data.items[i][2]]
             cols == [i \in 1..Len(data.items) |->
                         <<data.items[i][1], Len(ls) + i>>]
         IN  IF Table_check_cols(ls \o new, cols) # "none"
             THEN TableOutcome(ls, <<>>, "ValueError")
             ELSE TableOutcome(ls \o new, cols, "none")
    ELSE IF data.type = "list" THEN Table_cols_from_rows(ls, data.items)
    ELSE TableOutcome(ls, <<>>, "ValueError")

\* the place, from 1, of col[i], which is in col if the place is in 1..len
list_place(col, i) == IF i < 0 THEN i + Len(col) + 1 ELSE i + 1

in_range(col, i) == list_place(col, i) \in 1..Len(col)

\* the place in col that the bound i of a slice stands for: a negative bound
\* counts from the end, and a bound beyond an end is that end
slice_bound(col, i) ==
    IF i < 0 THEN max(i + Len(col), 0) ELSE min(i, Len(col))

\* col[start:stop]
list_slice(col, start, stop) ==
    SubSeq(col, slice_bound(col, start) + 1, slice_bound(col, stop))

\* Table.row_at(index)
Table_row_at(ls, cols, index) ==
    IF \E i \in 1..Len(cols) : ~in_range(ls[cols[i][2]], index)
    THEN [exc |-> "IndexError", ret |-> <<>>]
    ELSE [exc |-> "none",
          ret |-> [i \in 1..Len(cols) |->
                      <<cols[i][1],
                        ls[cols[i][2]][list_place(ls[cols[i][2]], index)]>>]]

\* Table.__getitem__(key) for a str: the list itself
Table_getitem_str(ls, cols, key) ==
    IF ~dict_contains(cols, key) THEN [exc |-> "KeyError", ret |-> 0]
    ELSE [exc |-> "none", ret |-> dict_get(cols, key)]

\* Table.__getitem__(key) for a slice: a Table of new lists
Table_getitem_slice(ls, cols, start, stop) ==
    LET sliced == [i \in 1..Len(cols) |->
                      list_slice(ls[cols[i][2]], start, stop)]
        sliced_data == [i \in 1..Len(cols) |-> <<cols[i][1], Len(ls) + i>>]
    IN  IF Table_check_cols(ls \o sliced, sliced_data) # "none"
        THEN TableOutcome(ls, <<>>, "ValueError")
        ELSE TableOutcome(ls \o sliced, sliced_data, "none")

\* Table.__getitem__(key) for a list of names: a Table of the lists of self
Table_getitem_list(ls, cols, key) ==
    IF \E i \in 1..Len(key) : ~dict_contains(cols, key[i])
    THEN TableOutcome(ls, <<>>, "KeyError")
    ELSE Table_init_cols(ls,
             dict_of_pairs(<<>>, [i \in 1..Len(key) |->
                                     <<key[i], dict_get(cols, key[i])>>]))

\* Table.__setitem__(key, value) for a str key and a list value that is
\* alive: the list is stored, not copied
Table_setitem_str(ls, cols, key, value) ==
    LET n == Table_len(ls, cols)
    IN  IF n.exc # "none" THEN TableOutcome(ls, cols, n.exc)
        ELSE IF Len(ls[value]) # n.ret THEN TableOutcome(ls, cols, "ValueError")
        ELSE TableOutcome(ls, dict_setitem(cols, key, value), "none")

\* for c in self.cols: self.cols[c][key] = value.get(c)
RECURSIVE setitem_loop(_, _, _, _, _)
setitem_loop(ls, cols, rest, key, value) ==
    IF rest = <<>> THEN TableOutcome(ls, cols, "none")
    ELSE LET col == rest[1][2]
         IN  IF ~in_range(ls[col], key) THEN TableOutcome(ls, cols, "IndexError")
             ELSE setitem_loop(
                      [ls EXCEPT ![col][list_place(ls[col], key)] =
                                     row_get(value.items, rest[1][1])],
                      cols, Tail(rest), key, value)

\* Table.__setitem__(key, value) for an int key
Table_setitem_int(ls, cols, key, value) ==
    IF value.type # "dict" THEN TableOutcome(ls, cols, "ValueError")
    ELSE setitem_loop(ls, cols, cols, key, value)

\* Table.copy(): deepcopy makes one new list of every list of self, and a
\* list that two columns share stays shared
Table_copy(ls, cols) ==
    LET olds == unique([i \in 1..Len(cols) |-> cols[i][2]])
        copies == [j \in 1..Len(olds) |-> ls[olds[j]]]
    IN  TableOutcome(ls \o copies,
                [i \in 1..Len(cols) |->
                    <<cols[i][1], Len(ls) + index_of(olds, cols[i][2])>>],
                "none")

\* the other operand of extend and +: a Table, or data for Table(...)
TableOperand(cols) == [type |-> "Table", items |-> cols]

\* for c, col in self.cols.items(): col.extend(other[c])
RECURSIVE extend_loop(_, _, _)
extend_loop(ls, rest, other_cols) ==
    IF rest = <<>> THEN ls
    ELSE extend_loop(
             [ls EXCEPT ![rest[1][2]] = @ \o ls[dict_get(other_cols, rest[1][1])]],
             Tail(rest), other_cols)

\* Table.extend(other): data that is no Table is tried on the constructor,
\* whose Table is dropped, and has no cols
Table_extend(ls, cols, other) ==
    IF other.type # "Table"
    THEN IF Table_init(ls, other).exc # "none"
         THEN TableOutcome(ls, cols, "ValueError")
         ELSE TableOutcome(ls, cols, "AttributeError")
    ELSE IF dict_keys(cols) # dict_keys(other.items)
    THEN TableOutcome(ls, cols, "ValueError")
    ELSE TableOutcome(extend_loop(ls, cols, other.items), cols, "none")

\* Table.__add__(other): the cols are those of the copy
Table_add(ls, cols, other) ==
    LET first == Table_copy(ls, cols)
        extended == Table_extend(first.lists, first.cols, other)
    IN  IF extended.exc # "none" THEN TableOutcome(ls, <<>>, extended.exc)
        ELSE extended

\* the lists that the tables ts hold, in the order of the tables and of
\* their columns
held(ts) ==
    unique(concat_all([t \in 1..Len(ts) |->
                          [i \in 1..Len(ts[t]) |-> ts[t][i][2]]]))

\* a list that no Table holds is no longer alive; the lists alive are kept
\* in the order in which the tables hold them
collect(ls, ts) ==
    LET alive == held(ts)
    IN  [lists |-> [j \in 1..Len(alive) |-> ls[alive[j]]],
         tables |-> [t \in 1..Len(ts) |->
                        [i \in 1..Len(ts[t]) |->
                            <<ts[t][i][1], index_of(alive, ts[t][i][2])>>]]]

\* ------------------------------------------------------------------- state
\* forward: the items of the Bidict; reverse: the items of its r;
\* last: the call that has just ended, or Idle between calls;
\* attrs: the object ("d" the Bidict, "r" its Boundict) each attribute of the
\* Bidict refers to; names: its key_name and value_name
\* scorer: the items and the missing_value of the Scorer; scall: the call on
\* the Scorer that has just ended, or ScorerIdle
\* sortable: the list, tuple or dict handed to the sorting functions;
\* sortcall: the call of a sorting function that has just ended, or SortIdle
\* lists: the lists alive that hold the columns of the tables; tables: the
\* cols of every Table alive; tcall: the call on a Table that has just ended
\* instances: Singleton._instances, from classes to their instances; objects:
\* the class and arguments of every instance made, an instance being its
\* place in objects; stack: the calls of classes whose constructor is running,
\* the innermost last; results: what the calls that returned have returned;
\* reentered: a class was called while its own constructor was running
VARIABLES forward, reverse, last, attrs, names, scorer, scall, sortable,
          sortcall, lists, tables, tcall, instances, objects, stack, results,
          reentered

bidictVars == <<forward, reverse, last, attrs, names>>
scorerVars == <<scorer, scall>>
sortingVars == <<sortable, sortcall>>
tableVars == <<lists, tables, tcall>>
singletonVars == <<instances, objects, stack, results, reentered>>

vars == <<bidictVars, scorerVars, sortingVars, tableVars, singletonVars>>

\* a call within one module (bidict, scorer, sorting, table, misc) changes
\* nothing of the other modules
Within(module) ==
    /\ IF module # "bidict" THEN UNCHANGED bidictVars ELSE TRUE
    /\ IF module # "scorer" THEN UNCHANGED scorerVars ELSE TRUE
    /\ IF module # "sorting" THEN UNCHANGED sortingVars ELSE TRUE
    /\ IF module # "table" THEN UNCHANGED tableVars ELSE TRUE
    /\ IF module # "misc" THEN UNCHANGED singletonVars ELSE TRUE

\* the Bidict is the one it was, with the attributes it had
SameBidict == UNCHANGED <<attrs, names>> /\ Within("bidict")

\* no call has been made on the Scorer since the caller last looked
ScorerIdle == [op |-> "idle", operator |-> "-", other |-> StrOperand, k |-> NoneK,
               args |-> <<>>, kwds |-> <<>>, s0 |-> <<>>, exc |-> "none",
               ret |-> <<>>]

\* a program that makes no Scorer
NoScorer == scorer = [items |-> <<>>, missing_value |-> 0] /\ scall = ScorerIdle

\* no sorting function has been called since the caller last looked
SortIdle == [op |-> "idle", reverse |-> FALSE, by_keys |-> FALSE,
             indices |-> <<>>, ret |-> ListOf(<<>>)]

\* a program that sorts nothing
NoSorting == sortable = ListOf(<<>>) /\ sortcall = SortIdle

\* no method of a Table has been called since the caller last looked
TableIdle == [op |-> "idle", self |-> 0, key |-> <<>>, value |-> <<>>,
              other |-> <<>>, exc |-> "none", ret |-> <<>>, made |-> 0,
              lists0 |-> <<>>, tables0 |-> <<>>]

\* a program that makes no Table
NoTable == lists = <<>> /\ tables = <<>> /\ tcall = TableIdle

\* a program that calls no class whose metaclass is Singleton
NoSingleton ==
    /\ instances = <<>>
    /\ objects = <<>>
    /\ stack = <<>>
    /\ results = {}
    /\ reentered = FALSE

\* the two views of a Bidict: bd (alias d) and bd.r
Views == {"d", "r"}

SelfOf(view, f, r) == IF view = "d" THEN f ELSE r
PeerOf(view, f, r) == IF view = "d" THEN r ELSE f

\* objects passed as key / as value through a view
KeyDom(view) == IF view = "d" THEN Keys ELSE Vals
ValDom(view) == IF view = "d" THEN Vals ELSE Keys

NoOther == <<>>

\* no call has been made since the caller last looked
Idle == [op |-> "idle", view |-> "d", k |-> NoObj, v |-> NoObj,
         other |-> NoOther, kv |-> <<>>, f0 |-> <<>>, r0 |-> <<>>,
         exc |-> "none", ret |-> NoObj]

\* the record of a call: operation, view, arguments, the two maps before the
\* call, the exception raised and the value returned
Call(op, view, k, v, other, kv, exc, ret) ==
    [op |-> op, view |-> view, k |-> k, v |-> v, other |-> other, kv |-> kv,
     f0 |-> forward, r0 |-> reverse, exc |-> exc, ret |-> ret]

\* write the outcome of a method called through a view back to the two maps
Store(view, o) ==
    /\ forward' = IF view = "d" THEN o.self ELSE o.peer
    /\ reverse' = IF view = "d" THEN o.peer ELSE o.self
    /\ SameBidict

\* sequences of at most n elements of S
RECURSIVE SeqsUpTo(_, _)
SeqsUpTo(S, n) ==
    IF n = 0 THEN {<<>>}
    ELSE LET shorter == SeqsUpTo(S, n - 1)
         IN  shorter \cup {Append(s, x) : s \in shorter, x \in S}

\* the pairs handed to update through a view
UpdatePairs(view) == KeyDom(view) \X (ValDom(view) \cup {Unhashable})

\* the keyword pairs handed to update through a view: keyword names are
\* identifiers, which the keys of forward ('salam') are and the keys of
\* reverse (0, 1, 2) are not
KeywordPairs(view) == IF view = "d" THEN UpdatePairs(view) ELSE {}

\* the arguments of update: `other`, given by its pairs in iteration order
\* (the items of a Mapping, the elements of a list of pairs), then at most
\* one keyword pair, MaxPairs pairs in all
UpdateArgs(view) ==
    {[other |-> o, kv |-> <<>>] : o \in SeqsUpTo(UpdatePairs(view), MaxPairs)}
    \cup {[other |-> o, kv |-> <<p>>] :
             o \in SeqsUpTo(UpdatePairs(view), MaxPairs - 1),
             p \in KeywordPairs(view)}

UpdateArgsOf == [view \in Views |-> UpdateArgs(view)]

\* Bidict(): Boundict.__init__ for the Bidict and for its r, both empty
BidictInit ==
    /\ forward = <<>>
    /\ reverse = <<>>
    /\ last = Idle
    /\ attrs = Bidict_init(<<>>, <<>>).attrs
    /\ names = <<"reverse", "direct">>

\* a program that makes no other Bidict than that one
NoBidict == BidictInit

\* a program that uses one module (bidict, scorer, sorting, table, misc)
\* uses nothing of the other modules
Alone(module) ==
    /\ module # "bidict" => NoBidict
    /\ module # "scorer" => NoScorer
    /\ module # "sorting" => NoSorting
    /\ module # "table" => NoTable
    /\ module # "misc" => NoSingleton

Init == BidictInit /\ Alone("bidict")

\* view[k] = v
SetItem ==
    /\ last = Idle
    /\ \E view \in Views :
       \E k \in KeyDom(view) \cup {Unhashable} :
       \E v \in ValDom(view) \cup {Unhashable} :
         LET o == Boundict_setitem(SelfOf(view, forward, reverse),
                                   PeerOf(view, forward, reverse), k, v)
         IN  /\ Store(view, o)
             /\ last' = Call("set", view, k, v, NoOther, <<>>, o.exc, NoObj)

\* del view[k]
DelItem ==
    /\ last = Idle
    /\ \E view \in Views : \E k \in KeyDom(view) \cup {Unhashable} :
         LET o == Boundict_delitem(SelfOf(view, forward, reverse),
                                   PeerOf(view, forward, reverse), k)
         IN  /\ Store(view, o)
             /\ last' = Call("del", view, k, NoObj, NoOther, <<>>, o.exc, NoObj)

\* view[k]
GetItem ==
    /\ last = Idle
    /\ \E view \in Views : \E k \in KeyDom(view) \cup {Unhashable} :
         LET g == dict_getitem(SelfOf(view, forward, reverse), k)
         IN  /\ UNCHANGED <<forward, reverse>>
             /\ SameBidict
             /\ last' = Call("get", view, k, NoObj, NoOther, <<>>, g.exc, g.ret)

\* view.update(other, **kv)
Update ==
    /\ last = Idle
    /\ \E view \in Views : \E a \in UpdateArgsOf[view] :
         LET o == Boundict_update(SelfOf(view, forward, reverse),
                                  PeerOf(view, forward, reverse), a.other, a.kv)
         IN  /\ Store(view, o)
             /\ last' = Call("update", view, NoObj, NoObj, a.other, a.kv, o.exc, NoObj)

\* view.pop(k)
Pop ==
    /\ last = Idle
    /\ \E view \in Views : \E k \in KeyDom(view) :
         LET o == dict_pop(SelfOf(view, forward, reverse),
                           PeerOf(view, forward, reverse), k)
         IN  /\ Store(view, o)
             /\ last' = Call("pop", view, k, NoObj, NoOther, <<>>, o.exc, o.ret)

\* view.popitem()
PopItem ==
    /\ last = Idle
    /\ \E view \in Views :
         LET o == dict_popitem(SelfOf(view, forward, reverse),
                               PeerOf(view, forward, reverse))
         IN  /\ Store(view, o)
             /\ last' = Call("popitem", view, NoObj, NoObj, NoOther, <<>>, o.exc, o.ret)

\* view.setdefault(k, v)
SetDefault ==
    /\ last = Idle
    /\ \E view \in Views : \E k \in KeyDom(view) : \E v \in ValDom(view) :
         LET o == dict_setdefault(SelfOf(view, forward, reverse),
                                  PeerOf(view, forward, reverse), k, v)
         IN  /\ Store(view, o)
             /\ last' = Call("setdefault", view, k, v, NoOther, <<>>, o.exc, o.ret)

\* view.clear()
Clear ==
    /\ last = Idle
    /\ \E view \in Views :
         LET o == dict_clear(SelfOf(view, forward, reverse),
                             PeerOf(view, forward, reverse))
         IN  /\ Store(view, o)
             /\ last' = Call("clear", view, NoObj, NoObj, NoOther, <<>>, o.exc, NoObj)

\* the call has returned and the caller goes on to its next call
Return ==
    /\ last # Idle
    /\ last' = Idle
    /\ UNCHANGED <<forward, reverse>>
    /\ SameBidict

\* item assignment, deletion and lookup through either view
Next == SetItem \/ DelItem \/ GetItem \/ Return

Spec == Init /\ [][Next]_vars

\* the same, and update
NextUpdate == SetItem \/ DelItem \/ GetItem \/ Update \/ Return

SpecUpdate == Init /\ [][NextUpdate]_vars

\* the same, and the mutators Boundict inherits from dict
NextDict == SetItem \/ DelItem \/ GetItem \/ Pop \/ PopItem \/ SetDefault
            \/ Clear \/ Return

SpecDict == Init /\ [][NextDict]_vars

\* ------------------------------------------- construction and attributes
\* the longest list or Mapping handed to Bidict(...)
MaxInitPairs == 3

\* no two pairs of ps have the same key, as in the items of a Mapping
distinct_keys(ps) == \A i, j \in 1..Len(ps) : ps[i][1] = ps[j][1] => i = j

\* the strs handed to Bidict(...)
Strs == {<<"word">>, <<"id">>, <<"word", "id">>, <<"d", "r">>}

\* a single positional argument, of at most n pairs
OneArg(n) ==
    {StrArg(parts) : parts \in Strs}
    \cup {MappingArg(ps) :
             ps \in {qs \in SeqsUpTo(UpdatePairs("d"), n) : distinct_keys(qs)}}
    \cup {ListArg(ps) : ps \in SeqsUpTo(UpdatePairs("d"), n)}
    \cup {IntArg}

\* one of two or three positional arguments
SmallArg == {StrArg(<<"word">>), StrArg(<<"id">>), IntArg, ListArg(<<>>)}

Positional(n) ==
    {<<>>} \cup {<<a>> : a \in OneArg(n)}
    \cup {<<a, b>> : a \in SmallArg, b \in SmallArg}
    \cup {<<a, b, c>> : a \in {IntArg}, b \in SmallArg, c \in {IntArg, StrArg(<<"id">>)}}

\* the keyword arguments: none, name=object, or word=[...], id=[...]
Keywords ==
    {<<>>}
    \cup {<<KwObj(p[1], p[2])>> : p \in KeywordPairs("d")}
    \cup {<<KwList("word", ks), KwList("id", vs)>> :
             ks \in SeqsUpTo(Keys, MaxPairs), vs \in SeqsUpTo(Vals, MaxPairs)}

\* the arguments of Bidict(...): any positional arguments alone, and short
\* positional arguments with keyword arguments
InitArgs(n) ==
    {[args |-> a, kwargs |-> <<>>] : a \in Positional(n)}
    \cup {[args |-> a, kwargs |-> k] : a \in Positional(1), k \in Keywords}

\* __init__ has run to its end: the attribute d is set last but five
Built == "d" \in DOMAIN attrs

\* bd = Bidict(*args, **kwargs): forward, reverse and attrs are those of the
\* new object, as __init__ left them when it returned or raised
Constructed ==
    \E a \in InitArgs(MaxInitPairs) :
      LET b == Bidict_init(a.args, a.kwargs)
      IN  /\ Alone("bidict")
          /\ forward = b.self
          /\ reverse = b.peer
          /\ attrs = b.attrs
          /\ names = <<b.key_name, b.value_name>>
          /\ last = [Idle EXCEPT !.op = "init", !.other = a.args,
                                 !.kv = a.kwargs, !.exc = b.exc]

\* bd.<name>[k] = v
SetVia ==
    /\ last = Idle /\ Built
    /\ \E name \in DOMAIN attrs :
       \E k \in KeyDom(attrs[name]) : \E v \in ValDom(attrs[name]) :
         LET o == Boundict_setitem(SelfOf(attrs[name], forward, reverse),
                                   PeerOf(attrs[name], forward, reverse), k, v)
         IN  /\ Store(attrs[name], o)
             /\ last' = Call("set_via", name, k, v, NoOther, <<>>, o.exc, NoObj)

\* bd.<name>[k]
GetVia ==
    /\ last = Idle /\ Built
    /\ \E name \in DOMAIN attrs : \E k \in Keys \cup Vals :
         LET g == dict_getitem(SelfOf(attrs[name], forward, reverse), k)
         IN  /\ UNCHANGED <<forward, reverse>>
             /\ SameBidict
             /\ last' = Call("get_via", name, k, NoObj, NoOther, <<>>, g.exc, g.ret)

\* construction, and item assignment and lookup through the attributes
NextInit == SetVia \/ GetVia \/ Return

SpecInit == Constructed /\ [][NextInit]_vars

\* ------------------------------------------------------ calls on a Scorer
\* the record of a call on the Scorer: the method, its arguments, the items
\* before the call, the exception raised and the value returned
ScorerCall(op, operator, other, k, args, kwds, exc, ret) ==
    [op |-> op, operator |-> operator, other |-> other, k |-> k, args |-> args,
     kwds |-> kwds, s0 |-> scorer.items, exc |-> exc, ret |-> ret]

\* the items of the Scorers of at most MaxElems elements
AllItems ==
    {ps \in SeqsUpTo(Elems \X Scores, MaxElems) : distinct_keys(ps)}

\* of the Scorers that differ in the order of their items only, the one in
\* the order of ElemNames
InNameOrder(ps) ==
    \A i, j \in 1..Len(ps) :
       i < j => \E m, n \in 1..MaxElems :
                   m < n /\ ElemNames[m] = ps[i][1] /\ ElemNames[n] = ps[j][1]

OrderedItems == {ps \in AllItems : InNameOrder(ps)}

\* the other operand of +, -, *, //, %: a Scorer or a dict, whose order the
\* operator does not look at
ArithOperands ==
    {ScorerOperand(ps) : ps \in OrderedItems}
    \cup {DictOperand(ps) : ps \in OrderedItems}

\* the other operand of &: a Scorer, whose order & does not look at, or an int
AndOperands ==
    {ScorerOperand(ps) : ps \in OrderedItems} \cup {IntOperand(n) : n \in Scores}

\* the other operand of |: a Scorer or an int
OrOperands ==
    {ScorerOperand(ps) : ps \in AllItems} \cup {IntOperand(n) : n \in Scores}

\* the argument of topk and bottomk
Ks == {NoneK, InfK, MinusInfK}
      \cup {IntK(n) : n \in (-(MaxElems + 1))..(MaxElems + 1)}

\* the arguments of Scorer.update: a dict or a list of at most two pairs,
\* a list of elements and a list of scores, or one keyword
ScorerUpdateArgs ==
    {[args |-> <<ps>>, kwds |-> <<>>] : ps \in SeqsUpTo(Elems \X Scores, 2)}
    \cup {[args |-> <<es, ss>>, kwds |-> <<>>] :
             es \in SeqsUpTo(Elems, 1), ss \in SeqsUpTo(Scores, 2)}
    \cup {[args |-> a, kwds |-> <<p>>] :
             a \in {<<>>} \cup {<<<<q>>>> : q \in Elems \X Scores},
             p \in Elems \X Scores}

\* s = Scorer()
ScorerInit ==
    /\ Alone("scorer")
    /\ scorer = [items |-> Scorer_init(<<>>, 0, <<>>).items, missing_value |-> 0]
    /\ scall = ScorerIdle

\* s = Scorer(missing_value=m)
ScorerInitMissing ==
    /\ Alone("scorer")
    /\ \E m \in {0, 1} : scorer = [items |-> Scorer_init(<<>>, m, <<>>).items,
                                    missing_value |-> m]
    /\ scall = ScorerIdle

\* s[elem] = score
ScorerSetItem ==
    /\ scall = ScorerIdle
    /\ \E elem \in Elems : \E score \in Scores :
         /\ scorer' = [scorer EXCEPT !.items = dict_setitem(@, elem, score)]
         /\ scall' = ScorerCall("set", "-", IntOperand(score), NoneK, <<elem>>,
                                <<>>, "none", <<>>)
    /\ Within("scorer")

\* s.update(*args, **kwds)
ScorerUpdate ==
    /\ scall = ScorerIdle
    /\ \E a \in ScorerUpdateArgs :
         LET u == Scorer_update(scorer.items, a.args, a.kwds)
         IN  /\ scorer' = [scorer EXCEPT !.items = u.items]
             /\ scall' = ScorerCall("update", "-", StrOperand, NoneK, a.args,
                                    a.kwds, u.exc, <<>>)
    /\ Within("scorer")

\* s + other, s - other, s * other, s // other, s % other
ScorerArith ==
    /\ scall = ScorerIdle
    /\ \E operator \in BinaryOperators : \E other \in ArithOperands :
         LET r == Scorer_binary_operator(scorer.items, other, operator)
         IN  scall' = ScorerCall("arith", operator, other, NoneK, <<>>, <<>>,
                                 r.exc, r.ret)
    /\ UNCHANGED scorer /\ Within("scorer")

\* s & other
ScorerAnd ==
    /\ scall = ScorerIdle
    /\ \E other \in AndOperands :
         LET r == Scorer_and(scorer.items, other)
         IN  scall' = ScorerCall("and", "-", other, NoneK, <<>>, <<>>, r.exc, r.ret)
    /\ UNCHANGED scorer /\ Within("scorer")

\* s | other
ScorerOr ==
    /\ scall = ScorerIdle
    /\ \E other \in OrOperands :
         LET r == Scorer_or(scorer.items, other)
         IN  scall' = ScorerCall("or", "-", other, NoneK, <<>>, <<>>, r.exc, r.ret)
    /\ UNCHANGED scorer /\ Within("scorer")

\* +s
ScorerPos ==
    /\ scall = ScorerIdle
    /\ LET r == Scorer_pos(scorer.items)
       IN  scall' = ScorerCall("pos", "-", StrOperand, NoneK, <<>>, <<>>, r.exc, r.ret)
    /\ UNCHANGED scorer /\ Within("scorer")

\* s.topk(k)
ScorerTopK ==
    /\ scall = ScorerIdle
    /\ \E k \in Ks :
         scall' = ScorerCall("topk", "-", StrOperand, k, <<>>, <<>>, "none",
                             Scorer_topk(scorer.items, k))
    /\ UNCHANGED scorer /\ Within("scorer")

\* s.bottomk(k)
ScorerBottomK ==
    /\ scall = ScorerIdle
    /\ \E k \in Ks :
         scall' = ScorerCall("bottomk", "-", StrOperand, k, <<>>, <<>>, "none",
                             Scorer_bottomk(scorer.items, k))
    /\ UNCHANGED scorer /\ Within("scorer")

\* the call has returned
ScorerReturn ==
    /\ scall # ScorerIdle
    /\ scall' = ScorerIdle
    /\ UNCHANGED scorer /\ Within("scorer")

\* item assignment, the operators and the top-k lists of a Scorer
NextScorer == ScorerSetItem \/ ScorerArith \/ ScorerAnd \/ ScorerOr
              \/ ScorerPos \/ ScorerTopK \/ ScorerBottomK \/ ScorerReturn

SpecScorer == ScorerInit /\ [][NextScorer]_vars

\* item assignment and update of a Scorer with any missing_value
NextScorerUpdate == ScorerSetItem \/ ScorerUpdate \/ ScorerReturn

SpecScorerUpdate == ScorerInitMissing /\ [][NextScorerUpdate]_vars

\* ------------------------------------------- calls of sorting functions
\* the lists and tuples of at most MaxLen values, and the dicts of at most
\* MaxElems items
Lists == {ListOf(vs) : vs \in SeqsUpTo(Scores, MaxLen)}
Tuples == {TupleOf(vs) : vs \in SeqsUpTo(Scores, MaxLen)}
Dicts == {DictOf(ps) : ps \in AllItems}

SortingInit ==
    /\ Alone("sorting")
    /\ (sortable \in Lists \/ sortable \in Tuples \/ sortable \in Dicts)
    /\ sortcall = SortIdle

\* argsort(x, reverse=reverse)
SortArgsort ==
    /\ sortcall = SortIdle
    /\ \E reverse_ \in BOOLEAN :
          sortcall' = [SortIdle EXCEPT !.op = "argsort", !.reverse = reverse_,
                          !.ret = ListOf(argsort(sortable, reverse_))]
    /\ UNCHANGED sortable /\ Within("sorting")

\* reorder(x, indices), the indices being those of x as they are, or as
\* argsort gives them
SortReorder ==
    /\ sortcall = SortIdle
    /\ \E indices \in {decide_arg(sortable), argsort(sortable, FALSE),
                       argsort(sortable, TRUE)} :
          sortcall' = [SortIdle EXCEPT !.op = "reorder", !.indices = indices,
                          !.ret = reorder(sortable, indices)]
    /\ UNCHANGED sortable /\ Within("sorting")

\* ascending(x, by_keys=by_keys)
SortAscending ==
    /\ sortcall = SortIdle
    /\ \E by_keys \in BOOLEAN :
          sortcall' = [SortIdle EXCEPT !.op = "ascending", !.by_keys = by_keys,
                          !.ret = ascending(sortable, by_keys)]
    /\ UNCHANGED sortable /\ Within("sorting")

\* descending(x, by_keys=by_keys)
SortDescending ==
    /\ sortcall = SortIdle
    /\ \E by_keys \in BOOLEAN :
          sortcall' = [SortIdle EXCEPT !.op = "descending", !.reverse = TRUE,
                          !.by_keys = by_keys,
                          !.ret = descending(sortable, by_keys)]
    /\ UNCHANGED sortable /\ Within("sorting")

\* x = the value the last call returned
SortAssign ==
    /\ sortcall.op \in {"reorder", "ascending", "descending"}
    /\ sortable' = sortcall.ret
    /\ sortcall' = SortIdle
    /\ Within("sorting")

\* the caller has looked at the result
SortReturn ==
    /\ sortcall # SortIdle
    /\ sortcall' = SortIdle
    /\ UNCHANGED sortable /\ Within("sorting")

NextSorting ==
    SortArgsort \/ SortReorder \/ SortAscending \/ SortDescending
    \/ SortAssign \/ SortReturn

SpecSorting == SortingInit /\ [][NextSorting]_vars

\* ------------------------------------------------------ calls on a Table
\* at most MaxTables tables are alive, and a list grows while it has fewer
\* than MaxRows elements
MaxTables == 2
MaxRows == 2

ColNames == {"a", "b"}
Cells == {"p", NoneCell}

\* the rows handed to append, to table[i] = row and to Table([...]): a cell
\* is None where the row lacks the name
Rows == {ps \in SeqsUpTo(ColNames \X {"p"}, 2) : distinct_keys(ps)}

\* the lists written out in a call, of at most n cells
ColumnLists(n) == SeqsUpTo(Cells, n)

\* the dicts of lists and the lists of rows handed to Table(...)
DictDatas(n) ==
    {DictData(items) :
        items \in {ps \in SeqsUpTo(ColNames \X ColumnLists(n), 2) :
                      distinct_keys(ps)}}

RowsDatas(n) == {RowsData(rows) : rows \in SeqsUpTo(Rows, n)}

\* the values handed to table[i] = value: a row, or a list, which is no dict
RowValues == {DictData(row) : row \in Rows} \cup {RowsData(<<>>)}

\* the int keys: -1, and 0 up to the last place of a full list
RowIndexes == (-1)..(MaxRows - 1)

\* data that is no Table, handed to extend and +: [], {} and an int
RawOperands == {RowsData(<<>>), DictData(<<>>), OtherData}

\* the record of a call on tables[self]: the method, its arguments, the
\* exception raised, the value returned, the place in tables of the Table
\* made, and the lists and tables before the call
TableCall(op, self, key, value, other, exc, ret, made) ==
    [op |-> op, self |-> self, key |-> key, value |-> value, other |-> other,
     exc |-> exc, ret |-> ret, made |-> made,
     lists0 |-> lists, tables0 |-> tables]

\* the lists and tables that a method leaves, no list longer than MaxRows
Leaves(ls, ts) ==
    /\ lists' = collect(ls, ts).lists
    /\ tables' = collect(ls, ts).tables
    /\ \A i \in 1..Len(lists') : Len(lists'[i]) <= MaxRows

\* the method made the Table of outcome o, unless it raised
Makes(o) ==
    IF o.exc # "none" THEN UNCHANGED <<lists, tables>>
    ELSE Leaves(o.lists, Append(tables, o.cols))

\* the method changed tables[t] as outcome o says
Changes(t, o) == Leaves(o.lists, [tables EXCEPT ![t] = o.cols])

\* table = Table(data)
TableConstructedFrom(data) ==
    LET o == Table_init(<<>>, data)
    IN  /\ lists = o.lists
        /\ tables = IF o.exc # "none" THEN <<>> ELSE <<o.cols>>
        /\ tcall = [TableIdle EXCEPT !.op = "init", !.value = data,
                       !.exc = o.exc,
                       !.made = IF o.exc # "none" THEN 0 ELSE 1]

TableConstructed ==
    /\ Alone("table")
    /\ \/ \E data \in DictDatas(MaxRows) : TableConstructedFrom(data)
       \/ \E data \in RowsDatas(MaxRows) : TableConstructedFrom(data)
       \/ TableConstructedFrom(OtherData)

\* the longest column of tables[t]
longest(t) ==
    IF tables[t] = <<>> THEN 0
    ELSE CHOOSE n \in Range(col_lengths(lists, tables[t])) :
            \A m \in Range(col_lengths(lists, tables[t])) : m <= n

\* table.append(row)
TableAppend ==
    /\ tcall.op = "idle"
    /\ \E t \in 1..Len(tables), row \in Rows :
          /\ longest(t) < MaxRows
          /\ Leaves(Table_append(lists, tables[t], row), tables)
          /\ tcall' = TableCall("append", t, <<>>, row, <<>>, "none", <<>>, 0)
    /\ Within("table")

\* table[key] = value for an int key
TableSetRow ==
    /\ tcall.op = "idle"
    /\ \E t \in 1..Len(tables), key \in RowIndexes, value \in RowValues :
          LET o == Table_setitem_int(lists, tables[t], key, value)
          IN  /\ Changes(t, o)
              /\ tcall' = TableCall("setitem_int", t, key, value, <<>>, o.exc,
                                    <<>>, 0)
    /\ Within("table")

\* table[key] = value for a str key: value is a list written out in the
\* call, or a list that table2[c] returned, which is alive
TableSetColumn ==
    /\ tcall.op = "idle"
    /\ \E t \in 1..Len(tables), key \in ColNames,
          new \in ColumnLists(MaxRows), value \in 1..(Len(lists) + 1) :
          LET ls == Append(lists, new)
              o == Table_setitem_str(ls, tables[t], key, value)
          IN  /\ value <= Len(lists) => new = <<>>
              /\ Changes(t, o)
              /\ tcall' = TableCall("setitem_str", t, key, ls[value],
                                    value <= Len(lists), o.exc, <<>>, 0)
    /\ Within("table")

\* table[key] for a str key
TableGetColumn ==
    /\ tcall.op = "idle"
    /\ \E t \in 1..Len(tables), key \in ColNames :
          LET got == Table_getitem_str(lists, tables[t], key)
          IN  tcall' = TableCall("getitem_str", t, key, <<>>, <<>>, got.exc,
                                 IF got.exc # "none" THEN <<>>
                                 ELSE lists[got.ret], 0)
    /\ UNCHANGED <<lists, tables>>
    /\ Within("table")

\* table[key] for an int key
TableGetRow ==
    /\ tcall.op = "idle"
    /\ \E t \in 1..Len(tables), key \in RowIndexes :
          LET got == Table_row_at(lists, tables[t], key)
          IN  tcall' = TableCall("getitem_int", t, key, <<>>, <<>>, got.exc,
                                 got.ret, 0)
    /\ UNCHANGED <<lists, tables>>
    /\ Within("table")

\* table2 = table[start:stop]
TableSlice ==
    /\ tcall.op = "idle"
    /\ Len(tables) < MaxTables
    /\ \E t \in 1..Len(tables), start \in 0..MaxRows, stop \in 0..MaxRows :
          LET o == Table_getitem_slice(lists, tables[t], start, stop)
          IN  /\ Makes(o)
              /\ tcall' = TableCall("getitem_slice", t, <<start, stop>>, <<>>,
                                    <<>>, o.exc, <<>>,
                                    IF o.exc # "none" THEN 0
                                    ELSE Len(tables) + 1)
    /\ Within("table")

\* table2 = table[key] for a list of names
TableSelect ==
    /\ tcall.op = "idle"
    /\ Len(tables) < MaxTables
    /\ \E t \in 1..Len(tables), key \in SeqsUpTo(ColNames, 2) :
          LET o == Table_getitem_list(lists, tables[t], key)
          IN  /\ Makes(o)
              /\ tcall' = TableCall("getitem_list", t, key, <<>>, <<>>, o.exc,
                                    <<>>,
                                    IF o.exc # "none" THEN 0
                                    ELSE Len(tables) + 1)
    /\ Within("table")

\* the other operands of tables[t]: the tables alive that leave it no longer
\* than MaxRows, and data that is no Table
OperandsOf(t) ==
    {[type |-> "Table", items |-> tables[u], place |-> u] :
        u \in {u \in 1..Len(tables) : longest(t) + longest(u) <= MaxRows}}
    \cup {[type |-> d.type, items |-> d.items, place |-> 0] : d \in RawOperands}

\* table.extend(other), table.concat(other)
TableExtend ==
    /\ tcall.op = "idle"
    /\ \E t \in 1..Len(tables) : \E other \in OperandsOf(t) :
          LET o == Table_extend(lists, tables[t], other)
          IN  /\ Changes(t, o)
              /\ tcall' = TableCall("extend", t, <<>>, <<>>, other, o.exc,
                                    <<>>, 0)
    /\ Within("table")

\* table2 = table + other
TableAdd ==
    /\ tcall.op = "idle"
    /\ Len(tables) < MaxTables
    /\ \E t \in 1..Len(tables) : \E other \in OperandsOf(t) :
          LET o == Table_add(lists, tables[t], other)
          IN  /\ Makes(o)
              /\ tcall' = TableCall("add", t, <<>>, <<>>, other, o.exc, <<>>,
                                    IF o.exc # "none" THEN 0
                                    ELSE Len(tables) + 1)
    /\ Within("table")

\* the caller has looked at the result
TableReturn ==
    /\ tcall.op # "idle"
    /\ tcall' = TableIdle
    /\ UNCHANGED <<lists, tables>>
    /\ Within("table")

\* the stop of table[i:], which is beyond the end of every list
NoStop == MaxRows + 1

\* the indexes at which a Table is split
SplitIndexes == (-NoStop)..NoStop

\* table2 = table[:i] + table[i:], the two slices being dropped after it
TableSplitJoin ==
    /\ tcall.op = "idle"
    /\ Len(tables) < MaxTables
    /\ \E t \in 1..Len(tables), i \in SplitIndexes :
          LET head == Table_getitem_slice(lists, tables[t], 0, i)
              tail == Table_getitem_slice(head.lists, tables[t], i, NoStop)
              o == IF head.exc # "none" THEN head
                   ELSE IF tail.exc # "none" THEN tail
                   ELSE Table_add(tail.lists, head.cols, TableOperand(tail.cols))
          IN  /\ Makes(o)
              /\ tcall' = TableCall("split_join", t, i, <<>>, <<>>, o.exc, <<>>,
                                    IF o.exc # "none" THEN 0
                                    ELSE Len(tables) + 1)
    /\ Within("table")

NextTable ==
    TableAppend \/ TableSetRow \/ TableSetColumn \/ TableGetColumn
    \/ TableGetRow \/ TableSlice \/ TableSelect \/ TableExtend \/ TableAdd
    \/ TableReturn

SpecTable == TableConstructed /\ [][NextTable]_vars

\* slices and sums of tables as the constructor made them
NextTableConcat == TableSlice \/ TableAdd \/ TableSplitJoin \/ TableReturn

SpecTableConcat == TableConstructed /\ [][NextTableConcat]_vars

\* ----------------------------------- calls of classes that are Singletons
\* a constructor is code of the class: it returns or raises, and while it
\* runs it may call classes that are Singletons, its own class among them.
\* At most MaxDepth constructors run one inside another, and at most
\* MaxObjects instances are made.
MaxDepth == 2
MaxObjects == 3

Classes == {"A", "B"}
CtorArgs == {0, 1}

\* cls not in cls._instances
Singleton_missing(insts, cls) == ~dict_contains(insts, cls)

\* cls._instances[cls] = instance
Singleton_store(insts, cls, instance) == dict_setitem(insts, cls, instance)

\* return cls._instances[cls]
Singleton_return(insts, cls) == dict_get(insts, cls)

\* what a call has returned
Result(cls, args, instance) == [cls |-> cls, args |-> args, obj |-> instance]

SingletonInit == Alone("misc") /\ NoSingleton

\* cls(args), by the program or by the constructor that is running: an
\* instance that is stored is returned, and otherwise the constructor of cls
\* starts
SingletonCall ==
    /\ \E cls \in Classes, args \in CtorArgs :
          IF Singleton_missing(instances, cls)
          THEN /\ Len(stack) < MaxDepth
               /\ Len(objects) + Len(stack) < MaxObjects
               /\ stack' = Append(stack, [cls |-> cls, args |-> args])
               /\ reentered' = (reentered
                                \/ \E i \in 1..Len(stack) : stack[i].cls = cls)
               /\ UNCHANGED <<instances, objects, results>>
          ELSE /\ results' = results
                     \cup {Result(cls, args, Singleton_return(instances, cls))}
               /\ UNCHANGED <<instances, objects, stack, reentered>>
    /\ Within("misc")

\* the innermost constructor returns: its instance is stored and returned
SingletonConstructed ==
    /\ stack # <<>>
    /\ LET call == stack[Len(stack)]
           stored == Singleton_store(instances, call.cls, Len(objects) + 1)
       IN  /\ objects' = Append(objects, call)
           /\ instances' = stored
           /\ results' = results
                 \cup {Result(call.cls, call.args,
                              Singleton_return(stored, call.cls))}
    /\ stack' = SubSeq(stack, 1, Len(stack) - 1)
    /\ UNCHANGED reentered
    /\ Within("misc")

\* the innermost constructor raises: nothing is stored
SingletonRaised ==
    /\ stack # <<>>
    /\ stack' = SubSeq(stack, 1, Len(stack) - 1)
    /\ UNCHANGED <<instances, objects, results, reentered>>
    /\ Within("misc")

NextSingleton == SingletonCall \/ SingletonConstructed \/ SingletonRaised

SpecSingleton == SingletonInit /\ [][NextSingleton]_vars

\* ------------------------------------------------- reading the last call
\* the maps of the view the last call went through, after and before it
NowSelf == SelfOf(last.view, forward, reverse)
NowPeer == PeerOf(last.view, forward, reverse)
OldSelf == SelfOf(last.view, last.f0, last.r0)
OldPeer == PeerOf(last.view, last.f0, last.r0)

SetDone == last.op = "set" /\ last.exc = "none"
DelDone == last.op = "del" /\ last.exc = "none"

\* m is the inverse of n: n[m[k]] = k for every key k of m
InverseOf(m, n) ==
    \A i \in 1..Len(m) : /\ dict_contains(n, m[i][2])
                         /\ dict_get(n, m[i][2]) = m[i][1]

\* the pairs of d that conflict with the pair (k, v): same key with another
\* value, or same value under another key
Conflicts(d, k, v) ==
    {p \in Range(d) : (p[1] = k /\ p[2] # v) \/ (p[1] # k /\ p[2] = v)}

\* the items of d that involve neither key k nor value v, order kept
Others(d, k, v) == SelectSeq(d, LAMBDA p : p[1] # k /\ p[2] # v)

\* (v, k) for every pair (k, v)
Flip(ps) == {<<p[2], p[1]>> : p \in ps}

\* ------------------------------------------------------------------ claims

\* C1: bijection invariant. After every item assignment and item deletion,
\* through the forward map or through r, reverse[forward[k]] = k for every
\* key k of forward and forward[reverse[v]] = v for every key v of reverse.
C1_Bijection == InverseOf(forward, reverse) /\ InverseOf(reverse, forward)

\* C1 witness: an assignment that evicted two pairs left a non-empty map
C1_Witness ==
    /\ SetDone
    /\ Cardinality(Conflicts(OldSelf, last.k, last.v)) = 2
    /\ Len(forward) >= 1

\* C3: set postcondition. For hashable k and v, view[k] = v raises nothing
\* and right after it view[k] is v and peer[v] is k, and no other pair of
\* either map has key k or value v.
C3_SetPostcondition ==
    (last.op = "set" /\ Hashable(last.k) /\ Hashable(last.v)) =>
        /\ last.exc = "none"
        /\ dict_getitem(NowSelf, last.k) = [exc |-> "none", ret |-> last.v]
        /\ dict_getitem(NowPeer, last.v) = [exc |-> "none", ret |-> last.k]
        /\ {i \in 1..Len(NowSelf) :
              NowSelf[i][1] = last.k \/ NowSelf[i][2] = last.v}
           = {dict_index(NowSelf, last.k)}
        /\ {i \in 1..Len(NowPeer) :
              NowPeer[i][1] = last.v \/ NowPeer[i][2] = last.k}
           = {dict_index(NowPeer, last.v)}

\* C3 witness: a set of a pair whose key and value were both taken
C3_Witness ==
    /\ SetDone
    /\ dict_contains(OldSelf, last.k) /\ dict_get(OldSelf, last.k) # last.v
    /\ dict_contains(OldPeer, last.v) /\ dict_get(OldPeer, last.v) # last.k

\* C4: eviction removes the whole pair. When k1 was mapped to v1 and
\* view[k2] = v1 is assigned with k1 # k2, k1 is no longer a key of the view
\* and peer[v1] is k2; and set(a,1); set(b,2); set(c,1) from empty ends with
\* forward = {b:2, c:1} and reverse = {2:b, 1:c}.
C4_Eviction ==
    /\ SetDone =>
         \A k1 \in dict_keys(OldSelf) :
            (k1 # last.k /\ dict_get(OldSelf, k1) = last.v) =>
                /\ ~dict_contains(NowSelf, k1)
                /\ dict_getitem(NowPeer, last.v).ret = last.k
    /\ ( /\ SetDone /\ last.view = "d" /\ last.k = "c" /\ last.v = "1"
         /\ last.f0 = << <<"a", "1">>, <<"b", "2">> >>
         /\ last.r0 = << <<"1", "a">>, <<"2", "b">> >> )
       => /\ forward = << <<"b", "2">>, <<"c", "1">> >>
          /\ reverse = << <<"2", "b">>, <<"1", "c">> >>

\* C4 witness: the scenario set(a,1); set(b,2); set(c,1)
C4_Witness ==
    /\ SetDone /\ last.view = "d" /\ last.k = "c" /\ last.v = "1"
    /\ last.f0 = << <<"a", "1">>, <<"b", "2">> >>
    /\ last.r0 = << <<"1", "a">>, <<"2", "b">> >>

\* C5: frame of set. view[k] = v removes exactly the pairs that conflict
\* with (k, v), at most two; every other pair of both maps stays, in order;
\* the size changes by +1, 0 or -1, and by -1 exactly when two pairs
\* conflict.
C5_SetFrame ==
    SetDone =>
        LET cs == Conflicts(OldSelf, last.k, last.v)
            delta == Len(NowSelf) - Len(OldSelf)
        IN  /\ Cardinality(cs) <= 2
            /\ Range(OldSelf) \ Range(NowSelf) = cs
            /\ Range(OldPeer) \ Range(NowPeer) = Flip(cs)
            /\ Range(NowSelf) \ Range(OldSelf) \subseteq {<<last.k, last.v>>}
            /\ Range(NowPeer) \ Range(OldPeer) \subseteq {<<last.v, last.k>>}
            /\ Others(NowSelf, last.k, last.v) = Others(OldSelf, last.k, last.v)
            /\ Others(NowPeer, last.v, last.k) = Others(OldPeer, last.v, last.k)
            /\ delta \in {1, 0, -1}
            /\ Len(NowPeer) - Len(OldPeer) = delta
            /\ (delta = -1) <=> (Cardinality(cs) = 2)

\* C5 witness: a set that removed two pairs, as bd['salam'] = 1 does
C5_Witness ==
    /\ SetDone
    /\ Len(NowSelf) = Len(OldSelf) - 1
    /\ Cardinality(Conflicts(OldSelf, last.k, last.v)) = 2

\* C6: idempotence of set. Repeating view[k] = v right after it leaves both
\* maps, items and order, as they are; and when view[k] was already v the
\* assignment changed nothing.
C6_SetIdempotent ==
    SetDone =>
        /\ Boundict_setitem(NowSelf, NowPeer, last.k, last.v)
             = Outcome(NowSelf, NowPeer, "none")
        /\ (dict_contains(OldSelf, last.k) /\ dict_get(OldSelf, last.k) = last.v)
             => (forward = last.f0 /\ reverse = last.r0)

\* C6 witness: a set of a pair that was already there, not in last position
C6_Witness ==
    /\ SetDone
    /\ dict_contains(OldSelf, last.k) /\ dict_get(OldSelf, last.k) = last.v
    /\ dict_index(OldSelf, last.k) < Len(OldSelf)
    /\ dict_index(OldPeer, last.v) < Len(OldPeer)

\* C7: removal symmetry. After del view[k] of a present key k with value v,
\* k is not a key of the view and v is not a key of its peer, looking up
\* either raises KeyError, and all other pairs of both maps stay, in order.
C7_RemovalSymmetry ==
    DelDone =>
        LET v == dict_get(OldSelf, last.k) IN
        /\ dict_contains(OldSelf, last.k)
        /\ ~dict_contains(NowSelf, last.k)
        /\ ~dict_contains(NowPeer, v)
        /\ dict_getitem(NowSelf, last.k).exc = "KeyError"
        /\ dict_getitem(NowPeer, v).exc = "KeyError"
        /\ NowSelf = dict_without(OldSelf, last.k)
        /\ NowPeer = dict_without(OldPeer, v)

\* C7 witness: a removal by value that left other pairs
C7_Witness == DelDone /\ last.view = "r" /\ Len(forward) >= 1

\* C8: removing or looking up a (hashable) key that is absent from the view
\* raises KeyError and leaves both maps as they were.
C8_AbsentKey ==
    (/\ last.op \in {"del", "get"}
     /\ Hashable(last.k) /\ ~dict_contains(OldSelf, last.k)) =>
        /\ last.exc = "KeyError"
        /\ forward = last.f0
        /\ reverse = last.r0

\* C8 witness: a failed removal from a non-empty map
C8_Witness ==
    /\ last.op = "del" /\ Hashable(last.k) /\ ~dict_contains(OldSelf, last.k)
    /\ Len(forward) >= 1

\* C2: forward and reverse always have the same number of items, after
\* every call of set, delete and update through either view and of the
\* mutators inherited from dict (pop, popitem, setdefault, clear).
C2_SameCardinality == Len(forward) = Len(reverse)

\* C9: no partial writes. A set, delete or lookup that raises, and an update
\* of a single pair that raises, leaves forward and reverse as they were
\* before the call.
C9_NoPartialWrite ==
    (/\ last.exc # "none"
     /\ \/ last.op \in {"set", "del", "get"}
        \/ last.op = "update" /\ Len(new_items(last.other)) + Len(last.kv) = 1)
    => (forward = last.f0 /\ reverse = last.r0)

\* view[k] = v for the pair p = (k, v), unless an earlier pair has raised
SetNext(before, p) ==
    IF before.exc # "none" THEN before
    ELSE Boundict_setitem(before.self, before.peer, p[1], p[2])

\* the state reached by view[k] = v for each pair of ps in order, up to and
\* including the first one that raises
RECURSIVE SetEach(_, _, _)
SetEach(self, peer, ps) ==
    IF ps = <<>> THEN Outcome(self, peer, "none")
    ELSE SetNext(SetEach(self, peer, SubSeq(ps, 1, Len(ps) - 1)), ps[Len(ps)])

\* the pairs of the last update in the order they are applied
UpdateItems == new_items(last.other) \o last.kv

\* C10: view.update(other, **kv) ends in the state, and with the exception,
\* that view[k] = v for each pair of other and then of kv, in order, ends
\* in: the pairs before a failing pair stay applied, the pairs after it are
\* not applied.
C10_UpdateIsSequentialSet ==
    (last.op = "update") =>
        LET ref == SetEach(OldSelf, OldPeer, UpdateItems)
        IN  /\ NowSelf = ref.self
            /\ NowPeer = ref.peer
            /\ last.exc = ref.exc

\* C10 witness: the keyword pair of an update evicted the pair that the same
\* update had inserted just before it
C10_Witness ==
    /\ last.op = "update" /\ last.exc = "none"
    /\ Len(last.other) = 1 /\ Len(last.kv) = 1
    /\ last.other[1][1] \notin dict_keys(OldSelf)
    /\ last.other[1][2] \notin dict_keys(OldPeer)
    /\ last.other[1][1] # last.kv[1][1]
    /\ last.other[1][1] \notin dict_keys(NowSelf)
    /\ Len(NowSelf) >= 1

\* the pairs ps hold hashable objects only
AllHashable(ps) == \A i \in 1..Len(ps) : Hashable(ps[i][1]) /\ Hashable(ps[i][2])

\* C11: construction from a sequence of (key, value) pairs leaves forward
\* and reverse as starting empty and assigning view[k] = v for each pair in
\* order does, the later pairs evicting the earlier ones they conflict with,
\* as for [(a,1), (b,2), (a,2)].
C11_InitFromPairs ==
    (/\ last.op = "init" /\ Len(last.other) = 1 /\ last.kv = <<>>
     /\ last.other[1].type = "list" /\ AllHashable(last.other[1].items))
    => LET ref == SetEach(<<>>, <<>>, last.other[1].items)
       IN  /\ forward = ref.self
           /\ reverse = ref.peer
           /\ last.exc = ref.exc

\* the construction inputs that are malformed: more than two positional
\* arguments; two positional arguments that are not both strs; one
\* positional argument that is neither a name string, a Mapping nor a list;
\* two keyword lists of different lengths
Malformed(args, kwargs) ==
    \/ Len(args) > 2
    \/ Len(args) = 2 /\ ~(\A i \in 1..2 : args[i].type = "str")
    \/ /\ Len(args) = 1
       /\ ~(args[1].type = "str" /\ Len(args[1].parts) = 2)
       /\ args[1].type \notin {"Mapping", "list"}
    \/ /\ Len(kwargs) = 2
       /\ \A i \in 1..2 : kwargs[i].type = "list"
       /\ Len(kwargs[1].items) # Len(kwargs[2].items)

\* C12: malformed construction input is rejected with an exception, and no
\* pair of it is stored.
C12_MalformedRejected ==
    (last.op = "init" /\ Malformed(last.other, last.kv)) =>
        /\ last.exc # "none"
        /\ forward = <<>>
        /\ reverse = <<>>

\* C13: iteration order. A map yields its live pairs in the insertion order
\* of their keys: after view[k] = v the keys that are still there keep
\* their order, a key that was present keeps its position and a key that
\* was absent comes last; after del view[k] the other keys keep their order.
C13_IterationOrder ==
    /\ SetDone =>
         LET kept == SelectSeq(keys_in_order(OldSelf),
                               LAMBDA k : dict_contains(NowSelf, k))
         IN  keys_in_order(NowSelf) =
                IF dict_contains(OldSelf, last.k) THEN kept
                ELSE Append(kept, last.k)
    /\ DelDone =>
         keys_in_order(NowSelf) =
            SelectSeq(keys_in_order(OldSelf), LAMBDA k : k # last.k)

\* the attributes meant for the forward map and for the reverse view
ForwardAliases == {"d", names[2], names[1] \o "2" \o names[2]}
ReverseAliases == {"r", names[1], names[2] \o "2" \o names[1]}

\* C14: the reverse view is a full read/write handle. Assigning
\* bd.<alias>[v] = k through an alias of r leaves forward and reverse as
\* forward[k] = v would; a lookup through an alias of r answers as reverse
\* does, and through an alias of the forward map as forward does.
C14_ReverseView ==
    /\ (last.op = "set_via" /\ last.view \in ReverseAliases) =>
         LET o == Boundict_setitem(last.f0, last.r0, last.v, last.k)
         IN  forward = o.self /\ reverse = o.peer /\ last.exc = o.exc
    /\ (last.op = "set_via" /\ last.view \in ForwardAliases) =>
         LET o == Boundict_setitem(last.f0, last.r0, last.k, last.v)
         IN  forward = o.self /\ reverse = o.peer /\ last.exc = o.exc
    /\ (last.op = "get_via" /\ last.view \in ReverseAliases) =>
         [exc |-> last.exc, ret |-> last.ret] = dict_getitem(reverse, last.k)
    /\ (last.op = "get_via" /\ last.view \in ForwardAliases) =>
         [exc |-> last.exc, ret |-> last.ret] = dict_getitem(forward, last.k)

\* the same holds of a Bidict whose two names differ and are not d and r
DistinctNames == names[1] # names[2] /\ {names[1], names[2]} \cap {"d", "r"} = {}

ReverseViewUnderDistinctNames == DistinctNames => C14_ReverseView

\* the pairs that the last update was handed, positional ones first
ScorerUpdateSource ==
    (IF Len(scall.args) = 2 THEN zip(scall.args[1], scall.args[2])
     ELSE IF Len(scall.args) = 1 THEN scall.args[1] ELSE <<>>) \o scall.kwds

\* C15: Scorer.update adds instead of replacing. For a Scorer that is empty
\* or not and a source that is a dict, a list of pairs, another Scorer or
\* keywords, update raises nothing, every element of the source then scores
\* its previous score (missing_value when it was absent) plus its score in
\* the source, and every other element is as it was.
C15_UpdateAdds ==
    (scall.op = "update" /\ distinct_keys(ScorerUpdateSource)) =>
        /\ scall.exc = "none"
        /\ \A elem \in Elems :
             IF dict_contains(ScorerUpdateSource, elem)
             THEN /\ dict_contains(scorer.items, elem)
                  /\ dict_get(scorer.items, elem)
                       = Scorer_getitem(scall.s0, scorer.missing_value, elem)
                         + dict_get(ScorerUpdateSource, elem)
             ELSE /\ dict_contains(scorer.items, elem) <=> dict_contains(scall.s0, elem)
                  /\ dict_contains(scall.s0, elem) =>
                        dict_get(scorer.items, elem) = dict_get(scall.s0, elem)

\* C16: arithmetic with another mapping. s1 + s2 (likewise -, *, //, %)
\* returns a Scorer with exactly the keys of s1: a key of both scores
\* operator(s1[k], s2[k]), a key of s1 alone keeps its score, a key of s2
\* alone is ignored; s1 is not modified.
C16_Arithmetic ==
    (scall.op = "arith" /\ scall.exc = "none") =>
        /\ scorer.items = scall.s0
        /\ dict_keys(scall.ret) = dict_keys(scall.s0)
        /\ Len(scall.ret) = Len(scall.s0)
        /\ \A elem \in dict_keys(scall.s0) :
             dict_get(scall.ret, elem) =
                IF dict_contains(scall.other.items, elem)
                THEN operator_call(scall.operator, dict_get(scall.s0, elem),
                                   dict_get(scall.other.items, elem)).ret
                ELSE dict_get(scall.s0, elem)

\* C16 witness: s1 + s2 where s2 has a key of s1, with a score that is not
\* zero, and a key that s1 lacks
C16_Witness ==
    /\ scall.op = "arith" /\ scall.operator = "add" /\ scall.exc = "none"
    /\ \E elem \in dict_keys(scall.s0) :
         /\ dict_contains(scall.other.items, elem)
         /\ dict_get(scall.other.items, elem) # 0
    /\ dict_keys(scall.other.items) \ dict_keys(scall.s0) # {}

\* v is the smaller, the larger, of a and b
IsMin(v, a, b) == v \in {a, b} /\ v <= a /\ v <= b
IsMax(v, a, b) == v \in {a, b} /\ v >= a /\ v >= b

NonIncreasing(l) == \A i, j \in 1..Len(l) : i < j => l[i][2] >= l[j][2]
NonDecreasing(l) == \A i, j \in 1..Len(l) : i < j => l[i][2] <= l[j][2]

\* l lists n items of the dict d, or all of them when there are fewer, none
\* of them twice
ListsItems(l, d, n) ==
    /\ Len(l) = (IF n < Len(d) THEN n ELSE Len(d))
    /\ Range(l) \subseteq Range(d)
    /\ Cardinality(Range(l)) = Len(l)

\* C18: topk. For k > 0 topk(k) lists the min(k, len) items that score
\* highest, in non-increasing order; for k < 0 the abs(k) items that score
\* lowest, in non-decreasing order, as bottomk(abs(k)) does; for None, 0 and
\* inf all items in non-increasing order; for -inf all items in
\* non-decreasing order.
C18_TopK ==
    (scall.op = "topk") =>
        LET k == scall.k
            l == scall.ret
            rest == Range(scall.s0) \ Range(l)
        IN  /\ (k.type = "int" /\ k.n > 0) =>
                 /\ ListsItems(l, scall.s0, k.n)
                 /\ NonIncreasing(l)
                 /\ \A p \in Range(l) : \A q \in rest : p[2] >= q[2]
            /\ (k.type = "int" /\ k.n < 0) =>
                 /\ ListsItems(l, scall.s0, -k.n)
                 /\ NonDecreasing(l)
                 /\ \A p \in Range(l) : \A q \in rest : p[2] <= q[2]
                 /\ l = Scorer_bottomk(scall.s0, IntK(-k.n))
            /\ in_None_0_inf(k) =>
                 ListsItems(l, scall.s0, Len(scall.s0)) /\ NonIncreasing(l)
            /\ (k = MinusInfK) =>
                 ListsItems(l, scall.s0, Len(scall.s0)) /\ NonDecreasing(l)

\* C18 witness: topk(-1) of a Scorer whose last item does not score lowest
C18_Witness ==
    /\ scall.op = "topk" /\ scall.k = IntK(-1)
    /\ Len(scall.s0) >= 2
    /\ scall.ret[1][2] < scall.s0[Len(scall.s0)][2]

\* idx holds every index of x once
IsPermutation(idx, x) ==
    /\ Len(idx) = Len(decide_arg(x))
    /\ Range(idx) = Range(decide_arg(x))

\* idx orders the values of x, ties in the order of the indices of x
OrdersValues(idx, x, reverse_) ==
    \A i, j \in 1..Len(idx) :
       i < j =>
          LET a == getitem(x, idx[i])
              b == getitem(x, idx[j])
          IN  /\ IF reverse_ THEN a >= b ELSE a <= b
              /\ a = b => index_of(decide_arg(x), idx[i])
                              < index_of(decide_arg(x), idx[j])

\* C19: for a list, a tuple or a dict x, argsort(x) holds every index (key)
\* of x once and orders the values non-decreasingly, non-increasingly with
\* reverse=True, ties staying in index (key) order; reorder(x, argsort(x))
\* equals ascending(x), both where argsort was called and where ascending
\* or reorder was
C19_SortingAgree ==
    /\ sortcall.op = "argsort" =>
          /\ IsPermutation(sortcall.ret.items, sortable)
          /\ OrdersValues(sortcall.ret.items, sortable, sortcall.reverse)
          /\ ~sortcall.reverse =>
                reorder(sortable, sortcall.ret.items) = ascending(sortable, FALSE)
    /\ (sortcall.op = "ascending" /\ ~sortcall.by_keys) =>
          sortcall.ret = reorder(sortable, argsort(sortable, FALSE))
    /\ (sortcall.op = "reorder" /\ sortcall.indices = argsort(sortable, FALSE)) =>
          sortcall.ret = ascending(sortable, FALSE)

\* argsort with reverse=True has returned the indices of a list that holds
\* two equal values and was not in descending order
C19_Witness ==
    /\ sortcall.op = "argsort" /\ sortcall.reverse
    /\ sortable.type = "list"
    /\ \E i, j \in 1..Len(sortable.items) :
          i # j /\ sortable.items[i] = sortable.items[j]
    /\ sortcall.ret.items # decide_arg(sortable)

\* all columns of tables[t] have the same length
SameLengths(ls, cols) == Cardinality(Range(col_lengths(ls, cols))) <= 1

\* C20: whatever the constructor, append, row assignment, column assignment,
\* extend, + and indexing have done, all columns of every Table alive have
\* the same length, also those of a Table after rows were appended to a
\* Table made from it by a slice or by a list of column names
C20_ColumnLengths == \A t \in 1..Len(tables) : SameLengths(lists, tables[t])

\* the columns of a Table with their cells, in the order of the columns
contents(ls, cols) == [i \in 1..Len(cols) |-> <<cols[i][1], ls[cols[i][2]]>>]

\* every Table that was alive before the call holds what it held
TablesKept ==
    \A t \in 1..Len(tcall.tables0) :
       contents(lists, tables[t]) = contents(tcall.lists0, tcall.tables0[t])

\* C21: table[:i] + table[i:] is made for every table and index i and has
\* the columns and rows of table in the same order; neither it nor a slice
\* nor + changes the table or the other operand
C21_Concat ==
    /\ tcall.op = "split_join" =>
          /\ tcall.exc = "none"
          /\ contents(lists, tables[tcall.made])
                = contents(tcall.lists0, tcall.tables0[tcall.self])
    /\ tcall.op \in {"split_join", "getitem_slice", "add"} => TablesKept

\* the same for a Table that has a column
ConcatOfColumns ==
    /\ (tcall.op = "split_join" /\ tcall.tables0[tcall.self] # <<>>) =>
          /\ tcall.exc = "none"
          /\ contents(lists, tables[tcall.made])
                = contents(tcall.lists0, tcall.tables0[tcall.self])
    /\ tcall.op \in {"split_join", "getitem_slice", "add"} => TablesKept

\* the Table the call was on, before the call and after it
TableBefore == contents(tcall.lists0, tcall.tables0[tcall.self])
TableAfter == contents(lists, tables[tcall.self])

\* append(row) has added the cell of row, or None, to every column
Appended(row) ==
    /\ Len(TableAfter) = Len(TableBefore)
    /\ \A i \in 1..Len(TableBefore) :
          /\ TableAfter[i][1] = TableBefore[i][1]
          /\ TableAfter[i][2]
                = Append(TableBefore[i][2], row_get(row, TableBefore[i][1]))

\* table[key] = row has put the cell of row, or None, at key in every column
\* and has left the other rows
Overwritten(key, row) ==
    /\ Len(TableAfter) = Len(TableBefore)
    /\ \A i \in 1..Len(TableBefore) :
          LET col == TableBefore[i][2]
          IN  /\ TableAfter[i][1] = TableBefore[i][1]
              /\ in_range(col, key)
              /\ TableAfter[i][2]
                    = [col EXCEPT ![list_place(col, key)] =
                                     row_get(row, TableBefore[i][1])]

\* C22: a row write leaves the columns the Table had: append(row) adds one
\* cell to every column, and table[i] = row, where it raises nothing, puts
\* row[c], or None where row lacks c, at row i of every column c and leaves
\* every other row; keys of row that are no columns are ignored
C22_RowWrites ==
    /\ tcall.op = "append" => Appended(tcall.value)
    /\ (tcall.op = "setitem_int" /\ tcall.exc = "none") =>
          Overwritten(tcall.key, tcall.value.items)

\* no two columns of the Table the call was on held the same list
Unshared ==
    \A i, j \in 1..Len(tcall.tables0[tcall.self]) :
       tcall.tables0[tcall.self][i][2] = tcall.tables0[tcall.self][j][2]
          => i = j

\* the same for a Table whose columns are lists of their own
RowWritesUnshared ==
    /\ (tcall.op = "append" /\ Unshared) => Appended(tcall.value)
    /\ (tcall.op = "setitem_int" /\ tcall.exc = "none" /\ Unshared) =>
          Overwritten(tcall.key, tcall.value.items)

\* every call of a class has returned the same instance
OneInstance ==
    \A r1, r2 \in results : r1.cls = r2.cls => r1.obj = r2.obj

\* the constructor of a class has made at most one instance
OneConstruction ==
    \A i, j \in 1..Len(objects) : objects[i].cls = objects[j].cls => i = j

\* an instance is returned by the calls of its own class only
OwnInstance == \A r \in results : objects[r.obj].cls = r.cls

\* C23: every call of a class whose metaclass is Singleton returns the one
\* instance that the first call of the class made, whatever the arguments
\* of the later calls; the constructor makes at most one instance of a class,
\* and no instance is returned for two classes
C23_Singleton == OneInstance /\ OneConstruction /\ OwnInstance

\* the same while no class is called from inside its own constructor
SingletonNotReentered == ~reentered => C23_Singleton

\* two calls of a class with different arguments have returned, so has a
\* call of another class, and no class was called from inside its own
\* constructor
SingletonTwoCalls ==
    /\ ~reentered
    /\ \E r1, r2 \in results :
          /\ r1.cls = r2.cls /\ r1.args # r2.args
          /\ \E r \in results : r.cls # r1.cls

====
